---- MODULE Spec2Model ----
(***************************************************************************)
(* Model of the HR automation repository: the conversational agent         *)
(* (agents/hr_conversational_agent.py), the model provider resolver and    *)
(* the resume analysis extractor (agents/resume_analysis_agent.py).        *)
(*                                                                         *)
(* Python strings are TLA+ strings; the string functions the code uses     *)
(* (lower, strip, "in", str.format, the regular expressions) are operators *)
(* that compute character by character what the Python functions compute.  *)
(***************************************************************************)
EXTENDS Integers, Sequences, FiniteSets, TLC

VARIABLES
    config,            \* process-wide settings read from the environment (config.py)
    job_description_text, \* HRConversationalAgent.job_description_text
    message_history,   \* HRConversationalAgent.message_history.messages
    generated_email,   \* HRConversationalAgent.generated_email, NoDraft while unset
    last,              \* what the most recent chat call did and returned
    genSucceeded,      \* history: some generate-email call has returned
    goodDraft,         \* history: the draft stored by the latest generate-email call that returned
    sendResults,       \* history: results chat has returned, by cause of the failed dispatch
    res,               \* provider resolver: the latest get_llm_model call
    ana,               \* analysis extractor: the latest analyze_resume call
    san,               \* redaction: the latest sanitize_error_message call
    ext,               \* email extraction: the latest extract_email_from_text call
    imap,              \* mailbox: the latest fetch_imap_emails call
    ui                 \* the dashboard: st.session_state, the temporary files, the mail sent

vars == <<config, job_description_text, message_history, generated_email, last, genSucceeded,
          goodDraft, sendResults, res, ana, san, ext, imap, ui>>

\* ------------------------------------------------------------------------
\* Python values and string functions
\* ------------------------------------------------------------------------

\* Python's None (os.getenv of an unset variable, an omitted argument): a value
\* no Python string of the model equals.
None == "<None>"

\* The attribute generated_email does not exist (hasattr is False).
NoDraft == [unset |-> TRUE]

Min(a, b) == IF a < b THEN a ELSE b

\* s[i] of a Python string, 1-based.
Char(s, i) == SubSeq(s, i, i)

UpperLetters == "ABCDEFGHIJKLMNOPQRSTUVWXYZ"

LowerLetters == "abcdefghijklmnopqrstuvwxyz"

\* str.lower() of one character.
LowerChar(c) ==
    IF \E i \in 1..Len(UpperLetters) : Char(UpperLetters, i) = c
    THEN Char(LowerLetters, CHOOSE i \in 1..Len(UpperLetters) : Char(UpperLetters, i) = c)
    ELSE c

\* str.lower(), halving the string so that long utterances stay shallow:
\* low[a, b] is s[a..b] lower-cased
Lower(s) ==
    LET low[a \in 1..Len(s), b \in 1..Len(s)] ==
            IF a >= b THEN LowerChar(Char(s, a))
            ELSE low[a, (a + b) \div 2] \o low[(a + b) \div 2 + 1, b]
    IN  IF s = "" THEN "" ELSE low[1, Len(s)]

\* k in s
Contains(s, k) == \E i \in 1..(Len(s) - Len(k) + 1) : SubSeq(s, i, i + Len(k) - 1) = k

\* s.lower()[i : i + len(k)] == k, character by character (lower keeps lengths)
LowerMatchesAt(s, i, k) ==
    /\ i + Len(k) - 1 <= Len(s)
    /\ \A j \in 1..Len(k) : LowerChar(Char(s, i + j - 1)) = Char(k, j)

\* k in s.lower()
LowerContains(s, k) == \E i \in 1..(Len(s) - Len(k) + 1) : LowerMatchesAt(s, i, k)

\* the characters str.strip() removes and the regex class \s matches
IsSpace(c) == c \in {" ", "\n", "\t", "\r", "\f"}

MinOf(S) == CHOOSE x \in S : \A y \in S : x <= y

MaxOf(S) == CHOOSE x \in S : \A y \in S : x >= y

\* s without the blanks before its first and after its last character of nonSpace
StripTo(s, nonSpace) == IF nonSpace = {} THEN "" ELSE SubSeq(s, MinOf(nonSpace), MaxOf(nonSpace))

\* str.strip()
Strip(s) == StripTo(s, {i \in 1..Len(s) : ~IsSpace(Char(s, i))})

\* s[:n]
Take(s, n) == SubSeq(s, 1, Min(n, Len(s)))

\* Python truthiness of an optional string: None and "" are falsy.
Truthy(v) == v /= None /\ v /= ""

\* a or b
Or(a, b) == IF Truthy(a) THEN a ELSE b

\* ------------------------------------------------------------------------
\* Intent classification (HRConversationalAgent.chat, lines 155-166)
\* ------------------------------------------------------------------------

email_keywords ==
    {"prepare email", "create email", "write email", "draft email",
     "generate email", "compose email", "make email", "email to candidate"}

send_keywords ==
    {"send email", "send it", "send the email", "send now",
     "dispatch email", "email send"}

_is_email_request(query) == \E keyword \in email_keywords : LowerContains(query, keyword)

_is_send_request(query) == \E keyword \in send_keywords : LowerContains(query, keyword)

\* chat with the send check of line 160 before the email check of line 156
chat_branch_send_first(query) ==
    IF _is_send_request(query) THEN "SendEmail"
    ELSE IF _is_email_request(query) THEN "GenerateEmail"
    ELSE "Query"

\* The branch chat takes: the email check comes first, then the send check.
ChatBranch(query) ==
    IF _is_email_request(query) THEN "GenerateEmail"
    ELSE IF _is_send_request(query) THEN "SendEmail"
    ELSE "Query"

\* ------------------------------------------------------------------------
\* The agent's construction arguments (HRConversationalAgent.__init__)
\* ------------------------------------------------------------------------

candidate_email == "jane.doe@example.com"

hr_name == "HR Team"

\* The job descriptions an agent is built with: plain text, and text with braces.
JobDescriptions == {"Python developer", "Build {service} APIs"}

\* resume_data as analyze_resume returns it; match_percentage in tenths.
resume_data ==
    [match_percentage |-> 735, position_level |-> "Senior",
     acceptance_probability |-> "High", key_strengths |-> <<"Python", "SQL">>,
     key_gaps |-> <<>>, detailed_analysis |-> "Strong backend profile.",
     resume_text |-> "Jane Doe jane.doe@example.com"]

DigitChars == "0123456789"

\* str(d) of one decimal digit
DigitStr(d) == Char(DigitChars, d + 1)

\* str(n) of a natural number below 10^4, digit by digit
NatStr(n) ==
    (IF n >= 1000 THEN DigitStr((n \div 1000) % 10) ELSE "")
    \o (IF n >= 100 THEN DigitStr((n \div 100) % 10) ELSE "")
    \o (IF n >= 10 THEN DigitStr((n \div 10) % 10) ELSE "")
    \o DigitStr(n % 10)

\* str(x) of a non-negative float held in tenths: 735 is "73.5", 730 is "73.0"
FloatStr(t) == NatStr(t \div 10) \o "." \o DigitStr(t % 10)

\* One more element appended to a joined prefix.
JoinStep(i, prefix, sep, item) == IF i = 1 THEN item ELSE prefix \o sep \o item

\* sep.join(seq): joined[i] joins the first i elements
Join(sep, seq) ==
    LET joined[i \in 0..Len(seq)] ==
            IF i = 0 THEN "" ELSE JoinStep(i, joined[i - 1], sep, seq[i])
    IN  joined[Len(seq)]

JdBudget == 2500

ResumeBudget == 2000

ExcerptBudget == 1500

EmailJdBudget == 1000

\* line 124: the excerpt of the resume text, present when there is resume text
resume_excerpt(full_resume_text) ==
    IF full_resume_text /= "" THEN "\nResume Text Excerpt:\n" \o Take(full_resume_text, ExcerptBudget)
    ELSE ""

\* ', '.join(items) if items else 'None specified'
joined_or_none(items) == IF items /= <<>> THEN Join(", ", items) ELSE "None specified"

\* _initialize_context: the system prompt.  The fixed prose between the
\* interpolated fields is abridged; every interpolated field is kept, in order.
system_prompt(rd, jd, email) ==
    "You are an expert HR assistant.\n=== CANDIDATE INFORMATION ===\n"
    \o "Candidate Email: " \o email \o "\n"
    \o "Match Percentage: " \o FloatStr(rd.match_percentage) \o "%\n"
    \o "Position Level Fit: " \o rd.position_level \o "\n"
    \o "Acceptance Probability: " \o rd.acceptance_probability \o "\n"
    \o "Key Strengths: " \o joined_or_none(rd.key_strengths) \o "\n"
    \o "Key Gaps: " \o joined_or_none(rd.key_gaps) \o "\n"
    \o "\nDetailed Candidate Analysis:\n" \o rd.detailed_analysis \o "\n"
    \o resume_excerpt(Take(rd.resume_text, ResumeBudget))
    \o "\n\n=== JOB DESCRIPTION ===\n" \o Take(jd, JdBudget) \o "\n\n"
    \o "=== YOUR ROLE ===\n- Candidate email: Provide " \o email \o "\n"
    \o "- Job match: Use the match percentage (" \o FloatStr(rd.match_percentage) \o "%)"

\* A message of the history: SystemMessage, HumanMessage or AIMessage.
Msg(role, content) == [role |-> role, content |-> content]

\* The system prompt of each agent the model builds.
SystemPromptOf == [jd \in JobDescriptions |-> system_prompt(resume_data, jd, candidate_email)]

\* ------------------------------------------------------------------------
\* Prompt templates (ChatPromptTemplate.from_messages, chain.invoke)
\* ------------------------------------------------------------------------

\* the indices of s from i on that hold a brace
BracesFrom(s, i) == {j \in i..Len(s) : Char(s, j) \in {"{", "}"}}

FmtOk(text) == [err |-> "none", text |-> text]

FmtErr(kind) == [err |-> kind, text |-> ""]

\* c followed by the formatted rest r; an error of the rest is the result.
FmtCons(c, r) == IF r.err = "none" THEN FmtOk(c \o r.text) ELSE r

\* the number of characters c in s[b..j]
CountIn(s, b, j, c) == Cardinality({x \in b..j : Char(s, x) = c})

MinOrZero(S) == IF S = {} THEN 0 ELSE MinOf(S)

\* The index of the "}" that closes the replacement field opened at b (nested
\* braces counted: the first "}" with as many "{" as "}" between b and it),
\* 0 when the string ends first.
FieldEnd(s, b) ==
    MinOrZero({j \in (b + 1)..Len(s) :
                  Char(s, j) = "}" /\ CountIn(s, b, j, "{") = CountIn(s, b, j, "}")})

\* A field other than "input": the variable is missing when the template is
\* invoked (KeyError), unless the rest of the template does not parse.
MissingField(rest) == IF rest.err = "ValueError" THEN rest ELSE FmtErr("KeyError")

\* The text from i on whose first brace is the "{" at b; e is the end of the
\* field it opens, from[j] the formatted text from j on.
OpenBrace(s, input, i, b, e, from) ==
    IF b = Len(s) THEN FmtErr("ValueError")
    ELSE IF Char(s, b + 1) = "{" THEN FmtCons(SubSeq(s, i, b - 1) \o "{", from[b + 2])
    ELSE IF e = 0 THEN FmtErr("ValueError")
    ELSE IF SubSeq(s, b + 1, e - 1) = "input" THEN FmtCons(SubSeq(s, i, b - 1) \o input, from[e + 1])
    ELSE MissingField(from[e + 1])

\* The text from i on whose first brace is the "}" at b.
CloseBrace(s, i, b, from) ==
    IF b < Len(s) /\ Char(s, b + 1) = "}" THEN FmtCons(SubSeq(s, i, b - 1) \o "}", from[b + 2])
    ELSE FmtErr("ValueError")

\* The text from i on, the first brace at b.
FormatStep(s, input, i, b, from) ==
    IF Char(s, b) = "{" THEN OpenBrace(s, input, i, b, FieldEnd(s, b), from)
    ELSE CloseBrace(s, i, b, from)

\* An f-string template formatted with the one variable "input"; from[i] is
\* the result for the text from index i on: text up to the next brace is
\* literal, "{{" and "}}" are literal braces, "{input}" is the input, any
\* other field is a missing variable (KeyError), an unbalanced brace is a
\* ValueError.
format_template(s, input) ==
    LET from[i \in 1..(Len(s) + 2)] ==
            IF BracesFrom(s, i) = {} THEN FmtOk(SubSeq(s, i, Len(s)))
            ELSE FormatStep(s, input, i, MinOf(BracesFrom(s, i)), from)
    IN  from[1]

\* ------------------------------------------------------------------------
\* Email draft generation (HRConversationalAgent._generate_email)
\* ------------------------------------------------------------------------

\* the regex class [:\s]
IsSubjectSep(c) == c = ":" \/ IsSpace(c)

\* the ends k of the runs query[r..k] of [:\s] characters
SepRunEnds(query, r) == {k \in r..Len(query) : \A j \in r..k : IsSubjectSep(Char(query, j))}

\* Where the group ([^\n]+) can start when [:\s]+ starts at r: after a run of
\* separators, on a character that is no line break.
GroupStarts(query, r) ==
    {k + 1 : k \in {x \in SepRunEnds(query, r) : x + 1 <= Len(query) /\ Char(query, x + 1) /= "\n"}}

\* the positions where subject[:\s]+([^\n]+) matches; IGNORECASE matches the
\* lower-cased letters
SubjectHits(query) ==
    {p \in 1..Len(query) : LowerMatchesAt(query, p, "subject") /\ GroupStarts(query, p + 7) /= {}}

\* the text from g to the end of its line
RestOfLine(query, g) ==
    SubSeq(query, g, MaxOf({h \in g..Len(query) : \A j \in g..h : Char(query, j) /= "\n"}))

\* match.group(1) of re.search(r'subject[:\s]+([^\n]+)', query, re.IGNORECASE):
\* the leftmost match; [:\s]+ is greedy and gives characters back until a
\* character other than a line break follows it; the group runs to the end of
\* that line.
subject_group(query, hits) == RestOfLine(query, MaxOf(GroupStarts(query, MinOf(hits) + 7)))

DefaultSubject == "Regarding Your Application"

\* line 246
subject_of_match(query, hits) ==
    IF hits /= {} THEN Strip(subject_group(query, hits)) ELSE DefaultSubject

\* lines 245-246
email_subject(query) == subject_of_match(query, SubjectHits(query))

\* lines 249-260: the prompt of the email generation; the fixed prose is
\* abridged, every interpolated field is kept, in order.
email_prompt(query, jd, rd) ==
    "Generate a professional email to the candidate.\n\nHR Instructions: " \o query
    \o "\n\nJob Description Context:\n" \o Take(jd, EmailJdBudget) \o "...\n\n"
    \o "Candidate Context:\n- Match: " \o FloatStr(rd.match_percentage) \o "%\n"
    \o "- Level: " \o rd.position_level \o "\n"
    \o "- Strengths: " \o Join(", ", rd.key_strengths) \o "\n\n"
    \o "Generate ONLY the email body content (without subject, greeting, or signature)."

\* s.split(c)[0]
BeforeFirst(s, c) == SubSeq(s, 1, MinOf({i \in 1..(Len(s) + 1) : i > Len(s) \/ Char(s, i) = c}) - 1)

UpperChar(c) ==
    IF \E i \in 1..Len(LowerLetters) : Char(LowerLetters, i) = c
    THEN Char(UpperLetters, CHOOSE i \in 1..Len(LowerLetters) : Char(LowerLetters, i) = c)
    ELSE c

\* str.capitalize()
Capitalize(s) == IF s = "" THEN "" ELSE UpperChar(Char(s, 1)) \o Lower(SubSeq(s, 2, Len(s)))

\* lines 284-288
_extract_candidate_name(email) ==
    IF Contains(email, "@") THEN Capitalize(BeforeFirst(BeforeFirst(email, "@"), "."))
    ELSE "Candidate"

\* utils.formatter.format_email: greeting, body and signature under a "Re: "
\* subject line.
format_email(subject, sender_name, body, user_name) ==
    "Subject: Re: " \o subject \o "\n\nDear " \o sender_name \o ",\n\n" \o body
    \o "\n\nBest regards,\n" \o user_name

\* What self.llm.invoke does: it raises, or it returns a response with content.
LlmRaises == [raised |-> TRUE, content |-> ""]

LlmReplies(replies) == {[raised |-> FALSE, content |-> r] : r \in replies}

\* The result of a chat call and what it did on the way: the value returned
\* or the exception raised, the message lists the model was invoked with, the
\* SMTP steps attempted, the log lines written.
Returned(value, llm, smtp, log) ==
    [outcome |-> "returned", value |-> value, llm |-> llm, smtp |-> smtp, log |-> log]

Raised(exc, llm, smtp, log) ==
    [outcome |-> "raised", value |-> exc, llm |-> llm, smtp |-> smtp, log |-> log]

\* _generate_email after the subject, the stripped body and the prompt are
\* known: whether it assigns self.generated_email, the draft it assigns, and
\* the result.  The draft is assigned (lines 266-270) after the model has
\* answered and before format_email is called (line 273).
generate_steps(llmOut, fmtRaises, subject, body, prompt) ==
    IF llmOut.raised
    THEN [stores |-> FALSE, draft |-> NoDraft, result |-> Raised("LLMError", <<prompt>>, <<>>, <<>>)]
    ELSE [stores |-> TRUE,
          draft |-> [subject |-> subject, body |-> body, to |-> candidate_email],
          result |->
              IF fmtRaises THEN Raised("FormatterError", <<prompt>>, <<>>, <<>>)
              ELSE Returned("Email generated successfully!\n\n"
                            \o format_email(subject, _extract_candidate_name(candidate_email),
                                            body, hr_name)
                            \o "\n\nSay 'send email' or 'send it' to send this email to "
                            \o candidate_email \o ".", <<prompt>>, <<>>, <<>>)]

\* _generate_email(query); self.llm.invoke(email_prompt) gives the model the
\* prompt as its one human message.
_generate_email(query, jd, llmOut, fmtRaises) ==
    generate_steps(llmOut, fmtRaises, email_subject(query), Strip(llmOut.content),
                   <<Msg("human", email_prompt(query, jd, resume_data))>>)

\* ------------------------------------------------------------------------
\* Dispatch (HRConversationalAgent._handle_send_request,
\* _send_email_to_candidate)
\* ------------------------------------------------------------------------

\* The four transport parameters a caller passes to chat.
Creds(u, p, s, o) == [username |-> u, password |-> p, server |-> s, port |-> o]

IsDigit(c) == \E i \in 1..Len(DigitChars) : Char(DigitChars, i) = c

IsSign(c) == c = "+" \/ c = "-"

\* t without its sign
Unsigned(t) == IF t /= "" /\ IsSign(Char(t, 1)) THEN SubSeq(t, 2, Len(t)) ELSE t

AllDigits(d) == d /= "" /\ \A i \in 1..Len(d) : IsDigit(Char(d, i))

\* int(s) succeeds: optional blanks around an optional sign and digits.
IsIntLiteral(s) == AllDigits(Unsigned(Strip(s)))

DigitVal(c) == (CHOOSE i \in 1..Len(DigitChars) : Char(DigitChars, i) = c) - 1

\* the value of a string of digits: val[i] is the value of its first i digits
NatVal(d) ==
    LET val[i \in 0..Len(d)] == IF i = 0 THEN 0 ELSE val[i - 1] * 10 + DigitVal(Char(d, i))
    IN  val[Len(d)]

\* the value of a signed string of digits
SignedVal(t) == IF Char(t, 1) = "-" THEN 0 - NatVal(Unsigned(t)) ELSE NatVal(Unsigned(t))

\* int(s) of a string IsIntLiteral accepts
IntValue(s) == SignedVal(Strip(s))

\* email.message refuses a header value with a line break in it.
HeaderOk(v) == ~Contains(v, "\n") /\ ~Contains(v, "\r")

\* The steps of the SMTP session, in order (lines 373-379).
SmtpSteps == <<"connect", "starttls", "login", "send_message">>

\* How the session ends: every step works, or the step named fails.
NetOutcomes == {"ok", "connect", "starttls", "login", "send_message"}

\* What each step of the session is given.
SmtpEvent(step, r, msg) ==
    IF step = "connect" THEN [op |-> step, host |-> r.server, port |-> IntValue(r.port)]
    ELSE IF step = "login" THEN [op |-> step, user |-> r.username, password |-> r.password]
    ELSE IF step = "send_message" THEN [op |-> step, msg |-> msg]
    ELSE [op |-> step]

\* The steps attempted when the step named net fails (all four when net = "ok").
SmtpEvents(r, msg, net) ==
    [i \in 1..(IF net = "ok" THEN Len(SmtpSteps) ELSE CHOOSE j \in 1..Len(SmtpSteps) : SmtpSteps[j] = net)
        |-> SmtpEvent(SmtpSteps[i], r, msg)]

\* lines 350-353 with every caller value ignored
resolve_from_config(creds, cfg) ==
    [username |-> cfg.EMAIL_USERNAME, password |-> cfg.EMAIL_PASSWORD,
     server   |-> cfg.EMAIL_SERVER, port |-> cfg.EMAIL_PORT]

\* lines 350-353: each parameter is the caller's value or the config default.
resolve_credentials(creds, cfg) ==
    [username |-> Or(creds.username, cfg.EMAIL_USERNAME),
     password |-> Or(creds.password, cfg.EMAIL_PASSWORD),
     server   |-> Or(creds.server, cfg.EMAIL_SERVER),
     port     |-> Or(creds.port, cfg.EMAIL_PORT)]

\* line 355: all([username, password, server_addr, port])
credentials_complete(r) ==
    Truthy(r.username) /\ Truthy(r.password) /\ Truthy(r.server) /\ Truthy(r.port)

\* lines 364-370: the message handed to send_message
EmailMessage(subject, body, from, to) ==
    [Subject |-> subject, From |-> from, To |-> to, content |-> Strip(body)]

\* lines 373-382: the SMTP session
smtp_session(events, net) ==
    IF net /= "ok" THEN [exc |-> "SMTPException", ret |-> FALSE, smtp |-> events, log |-> <<>>]
    ELSE [exc |-> "none", ret |-> TRUE, smtp |-> events, log |-> <<"Email sent successfully">>]

\* The try block of _send_email_to_candidate (lines 345-382) once the
\* credentials r are resolved: the value it returns or the exception that
\* leaves it, the SMTP steps attempted, the log.
send_resolved(subject, body, recipient_email, r, net) ==
    IF ~credentials_complete(r)
    THEN [exc |-> "none", ret |-> FALSE, smtp |-> <<>>, log |-> <<"Missing email credentials">>]
    ELSE IF ~(HeaderOk(subject) /\ HeaderOk(r.username) /\ HeaderOk(recipient_email))
    THEN [exc |-> "ValueError", ret |-> FALSE, smtp |-> <<>>, log |-> <<>>]
    ELSE IF ~IsIntLiteral(r.port)
    THEN [exc |-> "ValueError", ret |-> FALSE, smtp |-> <<>>, log |-> <<>>]
    ELSE smtp_session(SmtpEvents(r, EmailMessage(subject, body, r.username, recipient_email), net),
                      net)

\* The try block of _send_email_to_candidate (lines 345-382).
send_attempt(subject, body, recipient_email, creds, cfg, net) ==
    send_resolved(subject, body, recipient_email, resolve_credentials(creds, cfg), net)

\* lines 383-385 letting the exception through
except_reraise(a) == a

\* lines 383-385: every exception of the try block becomes a logged False.
except_clause(a) ==
    IF a.exc /= "none"
    THEN [exc |-> "none", ret |-> FALSE, smtp |-> a.smtp,
          log |-> a.log \o <<"Failed to send email to candidate: " \o a.exc>>]
    ELSE a

_send_email_to_candidate(subject, body, recipient_email, creds, cfg, net) ==
    except_clause(send_attempt(subject, body, recipient_email, creds, cfg, net))

\* The messages chat answers a send request with (their leading mark left out).
NoDraftMessage ==
    "No email has been generated yet. Please generate an email first by saying 'prepare email' or 'create email'."

SentMessage == "Email sent successfully to " \o candidate_email \o "!"

FailedMessage ==
    "Failed to send email to " \o candidate_email \o ". Please check your email configuration."

\* lines 307-324 without the except clause: an exception reaches the caller
send_reply_unguarded(a) ==
    IF a.exc /= "none" THEN Raised(a.exc, <<>>, a.smtp, a.log)
    ELSE IF a.ret THEN Returned(SentMessage, <<>>, a.smtp, a.log)
    ELSE Returned(FailedMessage, <<>>, a.smtp, a.log)

\* lines 307-324: the reply for what _send_email_to_candidate did
send_reply(a) ==
    IF a.exc /= "none"
    THEN Returned("Error sending email: " \o a.exc, <<>>, a.smtp,
                  a.log \o <<"Error sending email: " \o a.exc>>)
    ELSE IF a.ret THEN Returned(SentMessage, <<>>, a.smtp, a.log)
    ELSE Returned(FailedMessage, <<>>, a.smtp, a.log)

\* _handle_send_request with no except clause in it or below it
handle_send_request_unguarded(draft, creds, cfg, net) ==
    IF draft = NoDraft THEN Returned(NoDraftMessage, <<>>, <<>>, <<>>)
    ELSE send_reply_unguarded(send_attempt(draft.subject, draft.body, candidate_email, creds, cfg, net))

\* _handle_send_request without the test of line 304: reading the attribute
\* raises inside the try block
handle_send_request_unchecked(draft, creds, cfg, net) ==
    IF draft = NoDraft
    THEN Returned("Error sending email: AttributeError", <<>>, <<>>,
                  <<"Error sending email: AttributeError">>)
    ELSE send_reply(_send_email_to_candidate(draft.subject, draft.body, candidate_email,
                                             creds, cfg, net))

\* _handle_send_request (lines 304-324)
_handle_send_request(draft, creds, cfg, net) ==
    IF draft = NoDraft THEN Returned(NoDraftMessage, <<>>, <<>>, <<>>)
    ELSE send_reply(_send_email_to_candidate(draft.subject, draft.body, candidate_email,
                                             creds, cfg, net))

\* Why a dispatch did not send: a resolved parameter is empty ("missing"), or
\* the message or the SMTP session failed ("transport"); "none" when it sent
\* or there was no draft.
failure_cause(draft, r, net) ==
    IF draft = NoDraft THEN "none"
    ELSE IF ~credentials_complete(r) THEN "missing"
    ELSE IF ~HeaderOk(draft.subject) \/ ~IsIntLiteral(r.port) \/ net /= "ok" THEN "transport"
    ELSE "none"

\* ------------------------------------------------------------------------
\* Inputs of the model
\* ------------------------------------------------------------------------

\* Step 4 of example_hr_agent_usage.py (lines 45-48); step 5 is "send email".
UsageStep4 ==
    "Prepare an email inviting the candidate for an interview. "
    \o "Subject: Interview Invitation - Software Engineer Position"

\* What the HR user types.
Utterances ==
    {"Please draft email for candidate", "send the email now",
     "draft email then send email", "What is the candidate's experience?",
     "SEND IT", "Write Email. Subject: Offer",
     "Prepare an email inviting the candidate. Subject: Interview",
     "please resend email", "Send Now, then COMPOSE EMAIL", "email to Candidate",
     "Dispatch the email", "Send an email", "make emails", "email sender",
     UsageStep4, "send email", "Write email on the subject of salary"}

\* What the model answers.
Replies == {"Five years of Python.", " Thanks for {applying}.\n"}

LlmOutcomes == {LlmRaises} \cup LlmReplies(Replies)

\* Every text a message of the history can hold.
Contents == {SystemPromptOf[jd] : jd \in JobDescriptions} \cup Utterances \cup Replies \cup {"{input}"}

\* The EMAIL_* settings of config.py.
Settings(u, p, s, o) ==
    [EMAIL_USERNAME |-> u, EMAIL_PASSWORD |-> p, EMAIL_SERVER |-> s, EMAIL_PORT |-> o]

\* No EMAIL_* variable is set.
NoSettings == Settings(None, None, None, None)

\* Every combination of set and unset EMAIL_* variables.
AllSettings ==
    {Settings(u, p, s, o) : u \in {None, "noreply@corp.example"}, p \in {None, "env-secret"},
                            s \in {None, "mail.corp.example"}, o \in {None, "25"}}

\* chat called with no transport parameter, and with all four.
NoCreds == Creds(None, None, None, None)

GivenCreds == Creds("hr@corp.example", "app-secret", "smtp.corp.example", "587")

\* Every combination of given and omitted transport parameters, and callers
\* that pass an empty string or a port that is no number.
AllCreds ==
    {Creds(u, p, s, o) : u \in {None, "hr@corp.example"}, p \in {None, "app-secret"},
                         s \in {None, "smtp.corp.example"}, o \in {None, "587"}}
    \cup {Creds("", "", "", ""),
          Creds("hr@corp.example", "", "smtp.corp.example", "587"),
          Creds("hr@corp.example", "app-secret", "smtp.corp.example", "smtp"),
          Creds(None, None, None, "smtp"),
          Creds("hr@corp.example", "app-secret", "smtp.corp.example", " 587 ")}

\* ChatBranch, email generation, template formatting and the dispatch, each
\* computed once for every input of the model.
BranchOf == [q \in Utterances |-> ChatBranch(q)]

\* keyed by the query, the job description, whether the model raises, what
\* it answers and whether format_email raises
GenerateOf ==
    [q \in {u \in Utterances : BranchOf[u] = "GenerateEmail"}, jd \in JobDescriptions,
     raised \in BOOLEAN, content \in Replies \cup {""}, f \in BOOLEAN |->
        _generate_email(q, jd, [raised |-> raised, content |-> content], f)]

FormatOf ==
    [c \in Contents, q \in {u \in Utterances : BranchOf[u] = "Query"} |-> format_template(c, q)]

\* Every draft a session can hold.
Drafts == {NoDraft} \cup {GenerateOf[x].draft : x \in {y \in DOMAIN GenerateOf : GenerateOf[y].stores}}

\* The instruction and the model answer of the dispatch specification.
DispatchUtterance == "Write Email. Subject: Offer"

DispatchReply == " Thanks for {applying}.\n"

\* The drafts of the dispatch specification.
DispatchDrafts ==
    {NoDraft} \cup {GenerateOf[x].draft : x \in {y \in DOMAIN GenerateOf :
        GenerateOf[y].stores /\ y[1] = DispatchUtterance /\ y[4] = DispatchReply}}

\* The arguments of a dispatch as a tuple of strings: the draft, the caller's
\* parameters, the settings, the outcome of the transport.
DraftKey(draft) ==
    IF draft = NoDraft THEN <<"unset", "", "">> ELSE <<"set", draft.subject, draft.body>>

SendKey(draft, creds, cfg, net) ==
    DraftKey(draft)
    \o <<creds.username, creds.password, creds.server, creds.port>>
    \o <<cfg.EMAIL_USERNAME, cfg.EMAIL_PASSWORD, cfg.EMAIL_SERVER, cfg.EMAIL_PORT>>
    \o <<net>>

KeyDraft(k) ==
    IF k[1] = "unset" THEN NoDraft ELSE [subject |-> k[2], body |-> k[3], to |-> candidate_email]

KeyCreds(k) == Creds(k[4], k[5], k[6], k[7])

KeySettings(k) == Settings(k[8], k[9], k[10], k[11])

SendInputs ==
    (Drafts \X {NoCreds, GivenCreds} \X {NoSettings} \X NetOutcomes)
    \cup (DispatchDrafts \X AllCreds \X AllSettings \X NetOutcomes)

SendOf ==
    [k \in {SendKey(x[1], x[2], x[3], x[4]) : x \in SendInputs} |->
        [result |-> _handle_send_request(KeyDraft(k), KeyCreds(k), KeySettings(k), k[12]),
         cause |-> failure_cause(KeyDraft(k), resolve_credentials(KeyCreds(k), KeySettings(k)),
                                 k[12])]]

\* ------------------------------------------------------------------------
\* Plain queries (HRConversationalAgent.chat, lines 168-214)
\* ------------------------------------------------------------------------

IsSystemMessage(m) == m.role = "system"

IsConversationMessage(m) == m.role /= "system"

\* lines 173-181 calling _initialize_context on every query
with_system_message_rebuilt(history, jd) == Append(history, Msg("system", SystemPromptOf[jd]))

\* lines 173-181: the history, with the system message rebuilt when it holds none
with_system_message(history, jd) ==
    IF SelectSeq(history, IsSystemMessage) /= <<>> THEN history
    ELSE Append(history, Msg("system", SystemPromptOf[jd]))

\* lines 174-198: the first system message, the conversation, the query slot
messages_list(hist) ==
    <<Msg("system", SelectSeq(hist, IsSystemMessage)[1].content)>>
    \o SelectSeq(hist, IsConversationMessage)
    \o <<Msg("human", "{input}")>>

\* every entry of the list is an f-string template, formatted with the query
render_all(ml, query) == [i \in 1..Len(ml) |-> FormatOf[ml[i].content, query]]

\* The exception that stops the call before the model is invoked: a template
\* that does not parse (from_messages, line 201), else a variable the
\* invocation does not supply (line 205).
template_error(fmt) ==
    IF \E i \in 1..Len(fmt) : fmt[i].err = "ValueError" THEN "ValueError"
    ELSE IF \E i \in 1..Len(fmt) : fmt[i].err = "KeyError" THEN "KeyError"
    ELSE "none"

\* the messages the model receives
rendered_messages(ml, fmt) == [i \in 1..Len(ml) |-> Msg(ml[i].role, fmt[i].text)]

prompt_of(hist, ml, fmt) ==
    [history |-> hist, exc |-> template_error(fmt), rendered |-> rendered_messages(ml, fmt)]

prompt_for(query, hist, ml) == prompt_of(hist, ml, render_all(ml, query))

\* lines 170-205: the message list built from the history
build_messages(query, history, jd) ==
    prompt_for(query, with_system_message(history, jd), messages_list(with_system_message(history, jd)))

\* The query branch with add_user_message (line 211) before the invocation
chat_query_user_message_first(query, built, llmOut) ==
    IF built.exc /= "none"
    THEN [history |-> built.history, result |-> Raised(built.exc, <<>>, <<>>, <<>>)]
    ELSE IF llmOut.raised
    THEN [history |-> built.history \o <<Msg("human", query)>>,
          result |-> Raised("LLMError", <<built.rendered>>, <<>>, <<>>)]
    ELSE [history |-> built.history \o <<Msg("human", query), Msg("ai", llmOut.content)>>,
          result |-> Returned(llmOut.content, <<built.rendered>>, <<>>, <<>>)]

\* The query branch of chat: the history afterwards and the result.
chat_query(query, built, llmOut) ==
    IF built.exc /= "none"
    THEN [history |-> built.history, result |-> Raised(built.exc, <<>>, <<>>, <<>>)]
    ELSE IF llmOut.raised
    THEN [history |-> built.history,
          result |-> Raised("LLMError", <<built.rendered>>, <<>>, <<>>)]
    ELSE [history |-> built.history \o <<Msg("human", query), Msg("ai", llmOut.content)>>,
          result |-> Returned(llmOut.content, <<built.rendered>>, <<>>, <<>>)]

\* ------------------------------------------------------------------------
\* The chat state machine
\* ------------------------------------------------------------------------

\* Plain-query turns a session may hold.
MaxTurns == 2

\* The record of a chat call: its arguments and its result.
CallRecord(query, branch, creds, result) ==
    [query |-> query, branch |-> branch, creds |-> creds, outcome |-> result.outcome,
     value |-> result.value, llm |-> result.llm, smtp |-> result.smtp, log |-> result.log]

NoCall == CallRecord("", "none", NoCreds, Returned("", <<>>, <<>>, <<>>))

Idle == [phase |-> "idle"]

\* The state after a plain query whose branch computed r.
query_done(query, r) ==
    /\ message_history' = r.history
    /\ last' = CallRecord(query, "Query", NoCreds, r.result)
    /\ UNCHANGED <<config, job_description_text, generated_email, genSucceeded, goodDraft,
                   sendResults, res, ana, san, ext,
                   imap, ui>>

\* chat(query) for a query neither keyword list matches.
QueryIntent(queries, outs) ==
    \E query \in queries, llmOut \in outs :
        /\ BranchOf[query] = "Query"
        /\ Len(message_history) < 1 + 2 * MaxTurns
        /\ query_done(query, chat_query(query,
                                        build_messages(query, message_history, job_description_text),
                                        llmOut))

\* The state after _generate_email computed r.
generate_done(query, r) ==
    /\ generated_email' = IF r.stores THEN r.draft ELSE generated_email
    /\ last' = CallRecord(query, "GenerateEmail", NoCreds, r.result)
    /\ genSucceeded' = (genSucceeded \/ r.result.outcome = "returned")
    /\ goodDraft' = IF r.result.outcome = "returned" THEN r.draft ELSE goodDraft
    /\ UNCHANGED <<config, job_description_text, message_history, sendResults, res, ana, san, ext,
                   imap, ui>>

\* chat(query) for a query with a generate-email keyword.
GenerateEmailIntent(queries, outs) ==
    \E query \in queries, llmOut \in outs, fmtRaises \in BOOLEAN :
        /\ BranchOf[query] = "GenerateEmail"
        /\ generate_done(query, GenerateOf[query, job_description_text, llmOut.raised,
                                            llmOut.content, fmtRaises])

\* The state after _handle_send_request computed s.
send_done(query, creds, s) ==
    /\ last' = CallRecord(query, "SendEmail", creds, s.result)
    /\ sendResults' = IF s.cause = "none" THEN sendResults
                      ELSE [sendResults EXCEPT ![s.cause] = @ \cup {s.result.value}]
    /\ UNCHANGED <<config, job_description_text, message_history, generated_email,
                   genSucceeded, goodDraft, res, ana, san, ext,
                   imap, ui>>

\* chat(query, smtp_username, smtp_password, smtp_server, smtp_port) for a
\* query with a send keyword and no generate-email keyword.
SendEmailIntent(queries, credentials, nets) ==
    \E query \in queries, creds \in credentials, net \in nets :
        /\ BranchOf[query] = "SendEmail"
        /\ send_done(query, creds, SendOf[SendKey(generated_email, creds, config, net)])

\* HRConversationalAgent(resume_data, job_description_text, candidate_email)
InitAgent ==
    /\ job_description_text \in JobDescriptions
    /\ message_history = <<Msg("system", SystemPromptOf[job_description_text])>>
    /\ generated_email = NoDraft
    /\ last = NoCall
    /\ genSucceeded = FALSE
    /\ goodDraft = NoDraft
    /\ sendResults = [missing |-> {}, transport |-> {}]
    /\ res = Idle
    /\ ana = Idle
    /\ san = Idle
    /\ ext = Idle

\* No mailbox was read and no dashboard is open.
NoDashboard == imap = Idle /\ ui = Idle

Init ==
    /\ config = NoSettings
    /\ InitAgent
    /\ NoDashboard

\* ---- the session: queries, drafts and sends of one agent ----

SessionUtterances ==
    {"What is the candidate's experience?",
     "Prepare an email inviting the candidate. Subject: Interview",
     "Please draft email for candidate", "Write Email. Subject: Offer",
     "send the email now"}

AskQuery == QueryIntent(SessionUtterances, LlmOutcomes)

AskGenerate == GenerateEmailIntent(SessionUtterances, LlmOutcomes)

AskSend == SendEmailIntent(SessionUtterances, {NoCreds, GivenCreds}, {"ok", "login"})

Next == AskQuery \/ AskGenerate \/ AskSend

Spec == Init /\ [][Next]_vars

\* ---- routing: every utterance, one model answer, a transport that works ----

RouteQuery == QueryIntent(Utterances, LlmReplies({"Five years of Python."}))

RouteGenerate == GenerateEmailIntent(Utterances, LlmReplies({"Five years of Python."}))

RouteSend == SendEmailIntent(Utterances, {GivenCreds}, {"ok"})

NextRouting == RouteQuery \/ RouteGenerate \/ RouteSend

SpecRouting == Init /\ [][NextRouting]_vars

\* ---- dispatch: every configuration, every caller, every transport outcome ----

InitDispatch ==
    /\ config \in AllSettings
    /\ InitAgent
    /\ NoDashboard

DispatchGenerate ==
    GenerateEmailIntent({DispatchUtterance}, LlmReplies({DispatchReply}))

DispatchSend == SendEmailIntent({"send the email now"}, AllCreds, NetOutcomes)

NextDispatch == DispatchGenerate \/ DispatchSend

SpecDispatch == InitDispatch /\ [][NextDispatch]_vars

\* ------------------------------------------------------------------------
\* Redaction of secrets (utils/logger.py sanitize_error_message)
\* ------------------------------------------------------------------------

\* The environment variables whose values are secrets, in the order of
\* lines 32-34.
SensitiveVariables ==
    <<"GEMINI_API_KEY", "GOOGLE_API_KEY", "DEEPSEEK_API_KEY", "OPENAI_API_KEY",
      "EMAIL_PASSWORD", "IMAP_PASSWORD", "ADMIN_PASSWORD">>

\* lines 29-37: the values of the variables that are set to something
default_sensitive_keys(environ) ==
    SelectSeq([i \in 1..Len(SensitiveVariables) |-> environ[SensitiveVariables[i]]], Truthy)

\* key occurs in s at index i
OccursAt(s, key, i) == i + Len(key) - 1 <= Len(s) /\ SubSeq(s, i, i + Len(key) - 1) = key

\* s.replace(key, masked) for a key that is not empty: occurrences are taken
\* from the left and do not overlap.  from[i] is the result for s[i:].
Replace(s, key, masked) ==
    LET from[i \in 1..(Len(s) + 1)] ==
            IF i > Len(s) THEN ""
            ELSE IF OccursAt(s, key, i) THEN masked \o from[i + Len(key)]
            ELSE Char(s, i) \o from[i + 1]
    IN  from[1]

\* line 43: the first four and last four characters of a key longer than
\* eight, nothing of a shorter one
masked_key(key) ==
    IF Len(key) > 8 THEN SubSeq(key, 1, 4) \o "***" \o SubSeq(key, Len(key) - 3, Len(key))
    ELSE "***"

\* lines 41-44: one turn of the loop
mask_step(sanitized, key) ==
    IF Truthy(key) /\ Len(key) > 4 THEN Replace(sanitized, key, masked_key(key)) ELSE sanitized

\* lines 39-46 for the list sensitive_keys: done[i] is the text after i keys
sanitize_with_keys(error_msg, sensitive_keys) ==
    LET done[i \in 0..Len(sensitive_keys)] ==
            IF i = 0 THEN error_msg ELSE mask_step(done[i - 1], sensitive_keys[i])
    IN  done[Len(sensitive_keys)]

\* sanitize_error_message(error_msg), the keys taken from the environment
sanitize_error_message(error_msg, environ) ==
    sanitize_with_keys(error_msg, default_sensitive_keys(environ))

\* ---- the inputs of the redaction ----

\* os.environ: config.py copies GEMINI_API_KEY to GOOGLE_API_KEY when it is set.
Environ(gemini, deepseek, email_password, admin_password) ==
    [v \in {SensitiveVariables[i] : i \in 1..Len(SensitiveVariables)} |->
        IF v = "GEMINI_API_KEY" THEN gemini
        ELSE IF v = "GOOGLE_API_KEY" THEN (IF Truthy(gemini) THEN gemini ELSE None)
        ELSE IF v = "DEEPSEEK_API_KEY" THEN deepseek
        ELSE IF v = "EMAIL_PASSWORD" THEN email_password
        ELSE IF v = "ADMIN_PASSWORD" THEN admin_password
        ELSE None]

Environs ==
    {Environ(g, d, e, a) : g \in {None, "gemini-key"}, d \in {None, "", "deepseek-key"},
                           e \in {None, "abcd", "pass1", "hunter22", "key-1"},
                           a \in {None, "admin-admin-ad"}}

\* Texts of exceptions.
ErrorMessages ==
    {"connection refused",
     "API key not valid: gemini-key",
     "401 Unauthorized for deepseek-key (key deepseek-key)",
     "535 login failed for hr@corp.example / abcd",
     "535 bad password pass1 or hunter22",
     "gemini-key-1 expired",
     "token admin-admin-admin-admin-ad rejected"}

\* the record of a sanitize_error_message call
Sanitized(error_msg, keys, result) ==
    [phase |-> "sanitized", error_msg |-> error_msg, keys |-> keys, result |-> result]

\* sanitize_error_message(error_msg) in some environment
SanitizeMessage ==
    /\ \E error_msg \in ErrorMessages, environ \in Environs :
           san' = Sanitized(error_msg, default_sensitive_keys(environ),
                            sanitize_error_message(error_msg, environ))
    /\ UNCHANGED <<config, job_description_text, message_history, generated_email, last,
                   genSucceeded, goodDraft, sendResults, res, ana, ext,
                   imap, ui>>

\* sanitize_error_message(error_msg, sensitive_keys) with the list given
SanitizeWithKeys ==
    /\ \E error_msg \in ErrorMessages, k1 \in {"hunter22", "admin-admin-ad"},
          k2 \in {"", "abcd", "gemini-key"} :
           san' = Sanitized(error_msg, <<k1, k2>>, sanitize_with_keys(error_msg, <<k1, k2>>))
    /\ UNCHANGED <<config, job_description_text, message_history, generated_email, last,
                   genSucceeded, goodDraft, sendResults, res, ana, ext,
                   imap, ui>>

NextSanitize == SanitizeMessage \/ SanitizeWithKeys

SpecSanitize == Init /\ [][NextSanitize]_vars

\* ------------------------------------------------------------------------
\* The model provider resolver (get_llm_model)
\* ------------------------------------------------------------------------

\* What get_llm_model reads: whether langchain_google_genai imported, the two
\* API keys of config.py, and whether each constructor raises.
Environment(available, gemini_key, deepseek_key, gemini_ctor, deepseek_ctor) ==
    [GEMINI_AVAILABLE |-> available, GEMINI_API_KEY |-> gemini_key,
     DEEPSEEK_API_KEY |-> deepseek_key, gemini_ctor |-> gemini_ctor,
     deepseek_ctor |-> deepseek_ctor]

\* A constructor returns the model, or raises with a text that does or does
\* not quote the credential it was given.
CtorOutcomes == {"ok", "raises", "raises_quoting_key"}

\* str(e) of the exception a constructor raises
ctor_error(outcome, key) ==
    IF outcome = "raises_quoting_key" THEN "API key not valid: " \o key ELSE "connection refused"

\* os.environ as sanitize_error_message finds it
resolver_environ(env) == Environ(env.GEMINI_API_KEY, env.DEEPSEEK_API_KEY, None, None)

\* An API key is unset, set to nothing, or set.
GeminiKeys == {None, "", "gemini-key"}

DeepSeekKeys == {None, "", "deepseek-key"}

Environments ==
    {Environment(a, g, d, gc, dc) : a \in BOOLEAN, g \in GeminiKeys, d \in DeepSeekKeys,
                                    gc \in CtorOutcomes, dc \in CtorOutcomes}

\* The model get_llm_model returns, or the exception it raises.
Model(provider, name, temperature, log) ==
    [outcome |-> "returned", provider |-> provider, model |-> name,
     temperature |-> temperature, log |-> log]

NoModel(log) ==
    [outcome |-> "raised", provider |-> "ValueError", model |-> "", temperature |-> 0, log |-> log]

\* the first if statement: Gemini is tried
gemini_tried(env) == env.GEMINI_AVAILABLE /\ Truthy(env.GEMINI_API_KEY)

\* the second if statement: DeepSeek is tried
deepseek_tried(env) == Truthy(env.DEEPSEEK_API_KEY)

\* the first except clause with the text logged as it is
gemini_warning_unsanitized(env) ==
    IF gemini_tried(env) /\ env.gemini_ctor /= "ok"
    THEN <<"Failed to initialize Gemini: " \o ctor_error(env.gemini_ctor, env.GEMINI_API_KEY)>>
    ELSE <<>>

\* the warning of the first except clause: the text is sanitized
gemini_warning(env) ==
    IF gemini_tried(env) /\ env.gemini_ctor /= "ok"
    THEN <<"Failed to initialize Gemini: "
           \o sanitize_error_message(ctor_error(env.gemini_ctor, env.GEMINI_API_KEY),
                                     resolver_environ(env))>>
    ELSE <<>>

\* the warning of the second except clause: the text is logged as it is
deepseek_warning(env) ==
    IF deepseek_tried(env) /\ env.deepseek_ctor /= "ok"
    THEN <<"Failed to initialize DeepSeek: " \o ctor_error(env.deepseek_ctor, env.DEEPSEEK_API_KEY)>>
    ELSE <<>>

\* get_llm_model trying DeepSeek before Gemini
llm_model_deepseek_first(env, temperature) ==
    IF deepseek_tried(env) /\ env.deepseek_ctor = "ok"
    THEN Model("DeepSeek", "deepseek-chat", temperature, <<"Using DeepSeek model">>)
    ELSE IF gemini_tried(env) /\ env.gemini_ctor = "ok"
    THEN Model("Gemini", "models/gemini-2.5-flash", temperature, <<"Using Gemini model">>)
    ELSE NoModel(<<>>)

\* get_llm_model: Gemini, then DeepSeek, then ValueError
llm_model(env, temperature) ==
    IF gemini_tried(env) /\ env.gemini_ctor = "ok"
    THEN Model("Gemini", "models/gemini-2.5-flash", temperature, <<"Using Gemini model">>)
    ELSE IF deepseek_tried(env) /\ env.deepseek_ctor = "ok"
    THEN Model("DeepSeek", "deepseek-chat", temperature,
               gemini_warning(env) \o <<"Using DeepSeek model (fallback)">>)
    ELSE NoModel(gemini_warning(env) \o deepseek_warning(env))

\* temperatures, in tenths
AgentTemperature == 7

AnalysisTemperature == 3

\* agents/hr_conversational_agent.py get_llm_model
get_llm_model(env) == llm_model(env, AgentTemperature)

\* agents/resume_analysis_agent.py get_llm_model
analysis_get_llm_model(env) == llm_model(env, AnalysisTemperature)

WritingTemperature == 7

\* agents/email_writing_agent.py get_llm_model: it logs no choice, and the
\* text of neither failure is sanitized
writing_get_llm_model(env) ==
    IF gemini_tried(env) /\ env.gemini_ctor = "ok"
    THEN Model("Gemini", "models/gemini-2.5-flash", WritingTemperature, <<>>)
    ELSE IF deepseek_tried(env) /\ env.deepseek_ctor = "ok"
    THEN Model("DeepSeek", "deepseek-chat", WritingTemperature, gemini_warning_unsanitized(env))
    ELSE NoModel(gemini_warning_unsanitized(env) \o deepseek_warning(env))

\* the record of a get_llm_model call
Resolved(module, env, r) == [phase |-> "resolved", module |-> module, env |-> env, result |-> r]

\* get_llm_model() of the conversational agent, in some environment
ResolveForAgent ==
    /\ \E env \in Environments : res' = Resolved("hr_conversational_agent", env, get_llm_model(env))
    /\ UNCHANGED <<config, job_description_text, message_history, generated_email, last,
                   genSucceeded, goodDraft, sendResults, ana, san, ext,
                   imap, ui>>

\* get_llm_model() of the resume analysis agent, in some environment
ResolveForAnalysis ==
    /\ \E env \in Environments :
           res' = Resolved("resume_analysis_agent", env, analysis_get_llm_model(env))
    /\ UNCHANGED <<config, job_description_text, message_history, generated_email, last,
                   genSucceeded, goodDraft, sendResults, ana, san, ext,
                   imap, ui>>

\* get_llm_model() of the email writing agent, in some environment
ResolveForWriting ==
    /\ \E env \in Environments :
           res' = Resolved("email_writing_agent", env, writing_get_llm_model(env))
    /\ UNCHANGED <<config, job_description_text, message_history, generated_email, last,
                   genSucceeded, goodDraft, sendResults, ana, san, ext,
                   imap, ui>>

NextResolver == ResolveForAgent \/ ResolveForAnalysis \/ ResolveForWriting

SpecResolver == Init /\ [][NextResolver]_vars

\* ------------------------------------------------------------------------
\* The analysis extractor (agents/resume_analysis_agent.py analyze_resume)
\* ------------------------------------------------------------------------

\* Python values as json.loads produces them.  Numbers are held in
\* thousandths: FloatV(73500) is 73.5, IntV(73) is the int 73.
StrV(s) == [type |-> "str", s |-> s]

NullV == [type |-> "NoneType"]

BoolV(b) == [type |-> "bool", b |-> b]

IntV(n) == [type |-> "int", n |-> n, big |-> FALSE]

\* an int too large for a float
BigIntV == [type |-> "int", n |-> 0, big |-> TRUE]

FloatV(m) == [type |-> "float", milli |-> m]

\* a list, with its str()
ListV(repr) == [type |-> "list", repr |-> repr]

\* the key is not in the dict
Absent == [type |-> "absent"]

\* s.split(c, 1)[1], "" when c is not in s
AfterFirst(s, c) ==
    SubSeq(s, Min(Len(s) + 1, MinOf({i \in 1..(Len(s) + 1) : i > Len(s) \/ Char(s, i) = c}) + 1),
           Len(s))

\* digits and at most one point, with a digit on one side of it
FloatShape(u) ==
    /\ \A i \in 1..Len(u) : IsDigit(Char(u, i)) \/ Char(u, i) = "."
    /\ Cardinality({i \in 1..Len(u) : Char(u, i) = "."}) <= 1
    /\ \E i \in 1..Len(u) : IsDigit(Char(u, i))

\* float(s) succeeds.  The literals of the model are signed decimals of at
\* most three decimal places; exponents, "inf" and "nan" are not among them.
IsFloatLiteral(s) == FloatShape(Unsigned(Strip(s)))

\* the thousandths of the decimal places d
PadMilli(d) == NatVal(d) * (10 ^ (3 - Len(d)))

\* the thousandths of an unsigned decimal
UnsignedMilli(u) == NatVal(BeforeFirst(u, ".")) * 1000 + PadMilli(Take(AfterFirst(u, "."), 3))

SignedMilli(t) ==
    IF Char(t, 1) = "-" THEN 0 - UnsignedMilli(Unsigned(t)) ELSE UnsignedMilli(Unsigned(t))

FloatOk(m) == [exc |-> "none", milli |-> m]

FloatFails(exc) == [exc |-> exc, milli |-> 0]

\* float(v)
float_of(v) ==
    IF v.type = "float" THEN FloatOk(v.milli)
    ELSE IF v.type = "int" THEN (IF v.big THEN FloatFails("OverflowError") ELSE FloatOk(v.n * 1000))
    ELSE IF v.type = "bool" THEN FloatOk(IF v.b THEN 1000 ELSE 0)
    ELSE IF v.type = "str"
    THEN (IF IsFloatLiteral(v.s) THEN FloatOk(SignedMilli(Strip(v.s))) ELSE FloatFails("ValueError"))
    ELSE FloatFails("TypeError")

\* str(v) of a value float() refuses
str_of(v) ==
    IF v.type = "str" THEN v.s ELSE IF v.type = "list" THEN v.repr ELSE "None"

\* the end of the run of digits that starts at p
DigitRunEnd(s, p) == MaxOf({k \in p..Len(s) : \A j \in p..k : IsDigit(Char(s, j))})

\* the first index from q on that holds no blank
AfterSpaces(s, q) == MinOf({i \in q..(Len(s) + 1) : i > Len(s) \/ ~IsSpace(Char(s, i))})

PercentAt(s, q) == q <= Len(s) /\ Char(s, q) = "%"

\* \s*% matches at q
PercentAfter(s, q) == PercentAt(s, AfterSpaces(s, q))

\* (?:\.\d+) can match after the digits that end at a
HasFraction(s, a) == a + 2 <= Len(s) /\ Char(s, a + 1) = "." /\ IsDigit(Char(s, a + 2))

\* The end of group 1 when (\d+(?:\.\d+)?)\s*% matches with its digits ending
\* at a, 0 when it does not: the fraction is tried first, then left out.
NumberEndFrom(s, a) ==
    IF HasFraction(s, a) /\ PercentAfter(s, DigitRunEnd(s, a + 2) + 1) THEN DigitRunEnd(s, a + 2)
    ELSE IF PercentAfter(s, a + 1) THEN a
    ELSE 0

\* the end of group 1 when the pattern matches at p, 0 when it does not
NumberEnd(s, p) == IF IsDigit(Char(s, p)) THEN NumberEndFrom(s, DigitRunEnd(s, p)) ELSE 0

\* the positions where (\d+(?:\.\d+)?)\s*% matches
PercentHits(s) == {p \in 1..Len(s) : NumberEnd(s, p) > 0}

\* float(percentage_match.group(1)) of the leftmost match, else the default
percent_of_hits(s, hits, default) ==
    IF hits /= {} THEN FloatV(UnsignedMilli(SubSeq(s, MinOf(hits), NumberEnd(s, MinOf(hits)))))
    ELSE default

\* lines 210-215
percent_or_zero(s) == percent_of_hits(s, PercentHits(s), FloatV(0))

NormOk(v) == [exc |-> "none", value |-> v]

NormFails(exc) == [exc |-> exc, value |-> Absent]

\* lines 207-215: float(v), else the percentage in str(v), else 0.0; an
\* exception other than ValueError and TypeError leaves the block
normalize(v, f) ==
    IF f.exc = "none" THEN NormOk(FloatV(f.milli))
    ELSE IF f.exc \in {"ValueError", "TypeError"} THEN NormOk(percent_or_zero(str_of(v)))
    ELSE NormFails(f.exc)

\* re.search of a pattern [Xx]rest: either spelling is in the text
ContainsCased(text, upper, lower, rest) ==
    Contains(text, upper \o rest) \/ Contains(text, lower \o rest)

\* [Mm]id[- ]?level|[Mm]id[- ]?senior
MatchesMidLevel(text) ==
    \E sep \in {"-", " ", ""}, word \in {"level", "senior"} :
        ContainsCased(text, "M", "m", "id" \o sep \o word)

\* \s+level matches at q
LevelFollows(text, q) ==
    /\ AfterSpaces(text, q) > q
    /\ AfterSpaces(text, q) + 4 <= Len(text)
    /\ SubSeq(text, AfterSpaces(text, q), AfterSpaces(text, q) + 4) = "level"

\* [Ss]enior(?!\s+level)
MatchesSenior(text) ==
    \E i \in 1..(Len(text) - 5) :
        /\ SubSeq(text, i, i + 5) \in {"Senior", "senior"}
        /\ ~LevelFollows(text, i + 6)

\* the level patterns tried with Senior ahead of Mid-level
manual_position_level_senior_first(text) ==
    IF ContainsCased(text, "J", "j", "unior") THEN "Junior"
    ELSE IF MatchesSenior(text) THEN "Senior"
    ELSE IF MatchesMidLevel(text) THEN "Mid-level"
    ELSE IF ContainsCased(text, "L", "l", "ead") THEN "Lead"
    ELSE IF ContainsCased(text, "E", "e", "xecutive") THEN "Executive"
    ELSE "Unknown"

\* lines 252-263: the first level whose pattern is in the text
manual_position_level(text) ==
    IF ContainsCased(text, "J", "j", "unior") THEN "Junior"
    ELSE IF MatchesMidLevel(text) THEN "Mid-level"
    ELSE IF MatchesSenior(text) THEN "Senior"
    ELSE IF ContainsCased(text, "L", "l", "ead") THEN "Lead"
    ELSE IF ContainsCased(text, "E", "e", "xecutive") THEN "Executive"
    ELSE "Unknown"

\* lines 265-271
manual_acceptance(text) ==
    IF ContainsCased(text, "H", "h", "igh") THEN "High"
    ELSE IF ContainsCased(text, "M", "m", "edium") THEN "Medium"
    ELSE IF ContainsCased(text, "L", "l", "ow") THEN "Low"
    ELSE "Unknown"

extract_analysis_manually(response_text) ==
    [match_percentage |-> percent_of_hits(response_text, PercentHits(response_text), FloatV(0)),
     position_level |-> StrV(manual_position_level(response_text)),
     acceptance_probability |-> StrV(manual_acceptance(response_text)),
     acceptance_reasoning |-> StrV(""),
     key_strengths |-> ListV("[]"),
     key_gaps |-> ListV("[]"),
     detailed_analysis |-> StrV(response_text),
     recommendation |-> StrV("")]

\* What model.invoke answers: it raises, or its text holds a {...} span that
\* json.loads turns into a dict, or it is text json.loads makes nothing of.
ResponseRaises == [kind |-> "raises", text |-> "503 model overloaded"]

\* it raises with a text that quotes the API key
ResponseRaisesQuotingKey == [kind |-> "raises", text |-> "API key not valid: gemini-key"]

ObjectResponse(fields) == [kind |-> "object", fields |-> fields]

TextResponse(text) == [kind |-> "text", text |-> text]

\* re.search(r'\{.*\}', response_text, re.DOTALL) finds a span
HasJsonSpan(text) ==
    \E i \in 1..Len(text) : Char(text, i) = "{" /\ \E j \in (i + 1)..Len(text) : Char(text, j) = "}"

\* lines 186-200: the dict the response is parsed to, and the warning logged
parse_response(response) ==
    IF response.kind = "object" THEN [dict |-> response.fields, log |-> <<>>]
    ELSE [dict |-> extract_analysis_manually(response.text),
          log |-> IF HasJsonSpan(response.text)
                  THEN <<"Failed to parse JSON response, extracting manually">>
                  ELSE <<"No JSON found in response, extracting manually">>]

\* line 203: analysis_result["email"] = email
with_email(dict, email) ==
    [k \in DOMAIN dict \cup {"email"} |-> IF k = "email" THEN email ELSE dict[k]]

AnalysisReturned(analysis, log) == [outcome |-> "returned", analysis |-> analysis, log |-> log]

\* str(e) of get_llm_model's ValueError (line 66)
NoProviderText ==
    "No available LLM API keys found. Please set GEMINI_API_KEY or DEEPSEEK_API_KEY in .env file"

\* lines 222-223: the sanitized text is logged and raised in a new ValueError
analysis_raised(cause, error_msg, log) ==
    [outcome |-> "raised",
     analysis |-> [exc |-> "ValueError", cause |-> cause,
                   message |-> "Failed to analyze resume: " \o error_msg],
     log |-> log \o <<"Error during resume analysis: " \o error_msg>>]

\* lines 219-223: every exception of the try block, of type cause and with
\* str(e) = text, is raised again as a ValueError
AnalysisRaised(cause, text, environ, log) ==
    analysis_raised(cause, sanitize_error_message(text, environ), log)

\* lines 206-217 for a dict with the key, n what lines 207-215 make of it
ensure_number(dict, n, environ, log) ==
    IF n.exc /= "none"
    THEN AnalysisRaised(n.exc, "int too large to convert to float", environ, log)
    ELSE AnalysisReturned([dict EXCEPT !["match_percentage"] = n.value], log)

\* lines 202-217
finish_analysis(dict, environ, log) ==
    IF "match_percentage" \in DOMAIN dict
    THEN ensure_number(dict, normalize(dict["match_percentage"], float_of(dict["match_percentage"])),
                       environ, log)
    ELSE AnalysisReturned(dict, log)

\* lines 186-217
analyze_parsed(parsed, email, environ) ==
    finish_analysis(with_email(parsed.dict, email), environ, parsed.log)

\* analyze_resume letting the JSONDecodeError of line 192 escape
analyze_resume_strict(email, env, response) ==
    IF analysis_get_llm_model(env).outcome = "raised"
    THEN AnalysisRaised("ValueError", NoProviderText, resolver_environ(env), <<>>)
    ELSE IF response.kind = "raises"
    THEN AnalysisRaised("LLMError", response.text, resolver_environ(env), <<>>)
    ELSE IF response.kind = "text" /\ HasJsonSpan(response.text)
    THEN AnalysisRaised("JSONDecodeError", "Expecting property name enclosed in double quotes",
                        resolver_environ(env), <<>>)
    ELSE analyze_parsed(parse_response(response), email, resolver_environ(env))

\* analyze_resume once the email is extracted: env is what get_llm_model
\* finds, response what the model answers.
analyze_resume(email, env, response) ==
    IF analysis_get_llm_model(env).outcome = "raised"
    THEN AnalysisRaised("ValueError", NoProviderText, resolver_environ(env), <<>>)
    ELSE IF response.kind = "raises"
    THEN AnalysisRaised("LLMError", response.text, resolver_environ(env), <<>>)
    ELSE analyze_parsed(parse_response(response), email, resolver_environ(env))

\* ---- the inputs of the analysis ----

\* What the model puts under "match_percentage".
MatchValues ==
    {IntV(73), IntV(0), IntV(100), IntV(150), FloatV(73500), BigIntV, BoolV(TRUE), NullV,
     StrV("73%"), StrV("73.5 %"), StrV("seventy"), StrV("73"), StrV(" 73.5 "),
     StrV("about 80% match"), StrV(""), StrV("-5"), StrV("1.2.3%"), StrV("73 percent"),
     StrV("12.%"), StrV(".5"), ListV("['73%']"), ListV("[]")}

\* The dicts json.loads returns: each key present or not.
ObjectFields(mp, level) ==
    [k \in {"detailed_analysis"}
           \cup (IF mp /= Absent THEN {"match_percentage"} ELSE {})
           \cup (IF level /= Absent THEN {"position_level"} ELSE {})
        |-> IF k = "match_percentage" THEN mp
            ELSE IF k = "position_level" THEN level
            ELSE StrV("Strong backend profile.")]

ResponseTexts ==
    {"The candidate matches 82.5 % of the requirements. Senior level, high acceptance.",
     "No assessment possible.",
     "{match: 80%, level: Junior}",
     "Mid-senior profile {incomplete",
     "A senior engineer and team leader; low risk. Match 7 %%",
     "Senior, 45%, High",
     "Lead role; medium or low odds. 250% match"}

Responses ==
    {ResponseRaises, ResponseRaisesQuotingKey}
    \cup {ObjectResponse(ObjectFields(mp, level)) :
             mp \in MatchValues \cup {Absent}, level \in {Absent, StrV("Senior")}}
    \cup {TextResponse(t) : t \in ResponseTexts}

\* What extract_email_from_text found in the resume.
ExtractedEmails == {NullV, StrV(candidate_email)}

AnalysisEnvironments ==
    {Environment(TRUE, "gemini-key", None, "ok", "ok"),
     Environment(FALSE, None, None, "ok", "ok")}

\* the record of an analyze_resume call
Analyzed(email, env, response, r) ==
    [phase |-> "analyzed", email |-> email, env |-> env, response |-> response,
     outcome |-> r.outcome, analysis |-> r.analysis, log |-> r.log]

\* analyze_resume(resume_text, job_description_text)
AnalyzeResume ==
    /\ \E email \in ExtractedEmails, env \in AnalysisEnvironments, response \in Responses :
           ana' = Analyzed(email, env, response, analyze_resume(email, env, response))
    /\ UNCHANGED <<config, job_description_text, message_history, generated_email, last,
                   genSucceeded, goodDraft, sendResults, res, san, ext,
                   imap, ui>>

NextAnalyze == AnalyzeResume

SpecAnalyze == Init /\ [][NextAnalyze]_vars

\* ------------------------------------------------------------------------
\* Email extraction (agents/resume_analysis_agent.py,
\* extract_email_from_text, lines 69-122)
\* ------------------------------------------------------------------------

\* c is one of the characters of chars
InChars(c, chars) == \E i \in 1..Len(chars) : Char(chars, i) = c

\* [A-Za-z]
IsAsciiLetter(c) == InChars(c, UpperLetters) \/ InChars(c, LowerLetters)

\* [A-Za-z0-9], and str.isalnum() of an ASCII character
IsAsciiAlnum(c) == IsAsciiLetter(c) \/ IsDigit(c)

\* [A-Za-z0-9._%+-]
IsLocalChar(c) == IsAsciiAlnum(c) \/ InChars(c, "._%+-")

\* [A-Za-z0-9.-]
IsDomainChar(c) == IsAsciiAlnum(c) \/ InChars(c, ".-")

\* [A-Z|a-z]: inside a character class the bar is a member, not an alternation
IsTldChar(c) == IsAsciiLetter(c) \/ c = "|"

\* [\s\n\r\t,;:()\[\]{}"\'<>]
IsBoundaryChar(c) == IsSpace(c) \/ InChars(c, ",;:()[]{}\"'<>")

\* \w of an ASCII character
IsWordChar(c) == IsAsciiAlnum(c) \/ c = "_"

\* the last index of the longest run of InClass characters of text that
\* starts at index from; from - 1 when there is none
RunEnd(text, from, InClass(_)) ==
    MaxOf({e \in (from - 1)..Len(text) : \A i \in from..e : InClass(Char(text, i))})

\* [A-Za-z0-9][A-Za-z0-9._%+-]{2,}@ from index start, the local part taken
\* greedily up to index stop - 1: the index of the "@", 0 when there is no match
AtSignAfter(text, start, stop) ==
    IF /\ start <= Len(text)
       /\ IsAsciiAlnum(Char(text, start))
       /\ stop - start >= 3
       /\ stop <= Len(text)
       /\ Char(text, stop) = "@"
       /\ stop + 1 <= Len(text)
       /\ IsAsciiAlnum(Char(text, stop + 1))
    THEN stop
    ELSE 0

\* the "@" of an address whose local part starts at start and whose domain
\* starts with [A-Za-z0-9]; 0 when there is none
AtSign(text, start) ==
    IF start < 1 \/ start > Len(text) THEN 0
    ELSE AtSignAfter(text, start, RunEnd(text, start + 1, IsLocalChar) + 1)

\* the indexes of "@" + 1 + [A-Za-z0-9.-]{1,} at which "\." can match
DomainDots(text, at) ==
    {d \in (at + 3)..RunEnd(text, at + 2, IsDomainChar) : Char(text, d) = "."}

\* line 87 after the dot at d: [A-Z|a-z]{2,} followed by a boundary character
\* or the end of the text.  A shorter run is followed by a character of the
\* class, so only the longest run can be followed by a boundary.
PrimaryTldOk(text, d, e) ==
    /\ e - d >= 2
    /\ e = Len(text) \/ IsBoundaryChar(Char(text, e + 1))

PrimaryDots(text, at) ==
    {d \in DomainDots(text, at) : PrimaryTldOk(text, d, RunEnd(text, d + 1, IsTldChar))}

\* the end of the group of line 87 when it starts at start, 0 when it does
\* not match there: the greedy domain gives back characters until a dot fits
PrimaryEndAt(text, at) ==
    IF at = 0 \/ PrimaryDots(text, at) = {} THEN 0
    ELSE RunEnd(text, MaxOf(PrimaryDots(text, at)) + 1, IsTldChar)

PrimaryGroupEnd(text, start) == PrimaryEndAt(text, AtSign(text, start))

\* where the group starts when the pattern of line 87 matches from index q:
\* "^" is tried first, then a boundary character at q; 0 when neither matches
PrimaryGroupStart(text, q) ==
    IF q = 1 /\ PrimaryGroupEnd(text, 1) > 0 THEN 1
    ELSE IF q <= Len(text) /\ IsBoundaryChar(Char(text, q)) /\ PrimaryGroupEnd(text, q + 1) > 0
    THEN q + 1
    ELSE 0

PrimaryMatchStarts(text, p) == {q \in p..Len(text) : PrimaryGroupStart(text, q) > 0}

\* where the scan goes on after a match whose group ends at e: the boundary
\* character after the group belongs to the match
AfterPrimaryMatch(text, e) == IF e < Len(text) THEN e + 2 ELSE e + 1

\* the group of the match that starts at q
PrimaryGroup(text, q) ==
    SubSeq(text, PrimaryGroupStart(text, q), PrimaryGroupEnd(text, PrimaryGroupStart(text, q)))

\* re.findall(email_pattern, text), line 89: from[p] is the list of groups of
\* the matches found from index p on, leftmost first, not overlapping
primary_matches(text) ==
    LET from[p \in 1..(Len(text) + 1)] ==
            IF PrimaryMatchStarts(text, p) = {} THEN <<>>
            ELSE <<PrimaryGroup(text, MinOf(PrimaryMatchStarts(text, p)))>>
                 \o from[AfterPrimaryMatch(text,
                        PrimaryGroupEnd(text,
                            PrimaryGroupStart(text, MinOf(PrimaryMatchStarts(text, p)))))]
    IN  from[1]

\* \b between index e and e + 1 of text, for 1 <= e <= Len(text)
WordBoundaryAfter(text, e) ==
    IsWordChar(Char(text, e)) /= (e < Len(text) /\ IsWordChar(Char(text, e + 1)))

\* line 95 after the dot at d: the ends of [A-Z|a-z]{2,} at which \b holds
SimpleTldEnds(text, d) ==
    {e \in (d + 2)..RunEnd(text, d + 1, IsTldChar) : WordBoundaryAfter(text, e)}

SimpleDots(text, at) == {d \in DomainDots(text, at) : SimpleTldEnds(text, d) /= {}}

\* the end of the match of line 95 whose "@" is at index at, 0 when there is
\* none: the longest domain first, then the longest top-level part
SimpleEndAt(text, at) ==
    IF at = 0 \/ SimpleDots(text, at) = {} THEN 0
    ELSE MaxOf(SimpleTldEnds(text, MaxOf(SimpleDots(text, at))))

\* the end of the match of line 95 that starts at start, 0 when there is none:
\* \b before the first character, which is a word character
SimpleEnd(text, start) ==
    IF start > 1 /\ IsWordChar(Char(text, start - 1)) THEN 0
    ELSE SimpleEndAt(text, AtSign(text, start))

SimpleMatchStarts(text, p) == {q \in p..Len(text) : SimpleEnd(text, q) > 0}

\* re.findall(email_pattern_simple, text), line 96
simple_matches(text) ==
    LET from[p \in 1..(Len(text) + 1)] ==
            IF SimpleMatchStarts(text, p) = {} THEN <<>>
            ELSE <<SubSeq(text, MinOf(SimpleMatchStarts(text, p)),
                          SimpleEnd(text, MinOf(SimpleMatchStarts(text, p))))>>
                 \o from[SimpleEnd(text, MinOf(SimpleMatchStarts(text, p))) + 1]
    IN  from[1]

\* the indexes of the character c in s
IndexesOf(s, c) == {i \in 1..Len(s) : Char(s, i) = c}

\* lines 103-108 for a match with one "@" at index at: the local part has two
\* characters or more, the domain has a dot and two or more characters after
\* its last dot
parts_valid(match, at) ==
    /\ at - 1 >= 2
    /\ \E d \in IndexesOf(match, ".") : d > at
    /\ Len(match) - MaxOf(IndexesOf(match, ".")) >= 2

\* text.find(match), 1-based, for a match that occurs in text
Find(text, match) == MinOf({i \in 1..Len(text) : OccursAt(text, match, i)})

\* lines 110-115 with email_start at index start: neither the character
\* before nor the character after the first occurrence is alphanumeric
\* (a missing neighbour counts as a blank)
surroundings_valid(text, match, start) ==
    /\ ~(start > 1 /\ IsAsciiAlnum(Char(text, start - 1)))
    /\ ~(start + Len(match) <= Len(text) /\ IsAsciiAlnum(Char(text, start + Len(match))))

\* lines 101-116: the match is kept in valid_emails
is_valid_email(text, match) ==
    /\ Cardinality(IndexesOf(match, "@")) = 1
    /\ parts_valid(match, MinOf(IndexesOf(match, "@")))
    /\ surroundings_valid(text, match, Find(text, match))

\* max(matches, key=len) of a list that is not empty: the first of the longest
max_by_len(matches) ==
    matches[MinOf({i \in DOMAIN matches :
                       \A j \in DOMAIN matches : Len(matches[i]) >= Len(matches[j])})]

\* lines 81-82: the labels are deleted wherever they occur
remove_labels(text) ==
    Replace(Replace(Replace(Replace(Replace(text, "Email:", ""), "email:", ""),
                            "E-mail:", ""), "Contact:", ""), "contact:", "")

\* lines 98-120 for the matches of the fallback pattern
validated(text, matches_simple) ==
    IF SelectSeq(matches_simple, LAMBDA match : is_valid_email(text, match)) = <<>> THEN None
    ELSE max_by_len(SelectSeq(matches_simple, LAMBDA match : is_valid_email(text, match)))

\* lines 87-122 for the text without labels
extract_from(text, matches) ==
    IF matches /= <<>> THEN Strip(max_by_len(matches))
    ELSE validated(text, simple_matches(text))

\* extract_email_from_text(text)
extract_email_from_text(text) ==
    extract_from(remove_labels(text), primary_matches(remove_labels(text)))

\* What precedes an address in a resume text.
AddressPrefixes == {"", "pe ", "Contact: pe ", "Reach me at ", "Email:", "my E-mail: "}

Addresses == {"diyakhetarpal@gmail.com", "j.doe@example.com", "joe@ex.com"}

\* What follows it.
AddressSuffixes == {"", ".", " more text", ". Thanks", ".Thanks", ",", "| y", ".\n"}

\* The call extract_email_from_text(text) returned result; address is the
\* address that was written into text.
Extracted(text, address, result) == [text |-> text, address |-> address, result |-> result]

\* The texts handed to extract_email_from_text.
AddressTexts ==
    {prefix \o address \o suffix :
         prefix \in AddressPrefixes, address \in Addresses, suffix \in AddressSuffixes}

\* extract_email_from_text of each of them, computed once
ExtractedFrom == [text \in AddressTexts |-> extract_email_from_text(text)]

\* extract_email_from_text of a text that holds one address
ExtractEmail ==
    /\ \E prefix \in AddressPrefixes, address \in Addresses, suffix \in AddressSuffixes :
           ext' = Extracted(prefix \o address \o suffix, address,
                            ExtractedFrom[prefix \o address \o suffix])
    /\ UNCHANGED <<config, job_description_text, message_history, generated_email, last,
                   genSucceeded, goodDraft, sendResults, res, ana, san,
                   imap, ui>>

NextExtract == ExtractEmail

SpecExtract == Init /\ [][NextExtract]_vars

\* ------------------------------------------------------------------------
\* Fetching the inbox (core/email_imap.py, fetch_imap_emails, lines 10-127)
\* ------------------------------------------------------------------------

\* Messages an inbox may hold.
MaxInbox == 4

\* What happens when the loop handles a message: it is fetched and parsed
\* ("ok"); FETCH answers NO (lines 62-64); FETCH answers no data (lines
\* 66-72); the handling raises (lines 104-107); the subject header does not
\* decode (lines 84-86); the body does not decode (lines 91-93).
FetchKinds == {"ok", "fetch_no", "no_data", "raises", "subject_error", "body_error"}

\* An inbox: the messages by sequence number, oldest first.
Mailboxes == UNION {[1..n -> FetchKinds] : n \in 0..MaxInbox}

\* The headers and the body of message num.
SenderOf(num) == "sender" \o NatStr(num) \o "@corp.example"

RawSubject(num) == "=?utf-8?q?Subject_" \o NatStr(num) \o "?="

DecodedSubject(num) == "Subject " \o NatStr(num)

BodyOf(num) == "Body " \o NatStr(num)

\* line 47: the sequence numbers SEARCH ALL answers, ascending
search_all(mailbox) == [i \in 1..Len(mailbox) |-> i]

\* email_ids[-max_emails:]
LastOf(email_ids, max_emails) ==
    IF max_emails = 0 THEN email_ids
    ELSE IF max_emails < 0 THEN SubSeq(email_ids, 1 - max_emails, Len(email_ids))
    ELSE SubSeq(email_ids, Len(email_ids) - max_emails + 1, Len(email_ids))

\* email_ids[:max_emails]
FirstOf(email_ids, max_emails) == SubSeq(email_ids, 1, Min(max_emails, Len(email_ids)))

\* lines 51-53 keeping the first ids
limit_ids_oldest(email_ids, max_emails) ==
    IF Len(email_ids) > max_emails THEN FirstOf(email_ids, max_emails) ELSE email_ids

\* lines 51-53
limit_ids(email_ids, max_emails) ==
    IF Len(email_ids) > max_emails THEN LastOf(email_ids, max_emails) ELSE email_ids

\* reversed(email_ids)
Reversed(s) == [i \in 1..Len(s) |-> s[Len(s) + 1 - i]]

\* lines 75-86
decoded_subject(num, kind) == IF kind = "subject_error" THEN RawSubject(num) ELSE DecodedSubject(num)

\* lines 89-93
extracted_body(num, kind) == IF kind = "body_error" THEN "Error extracting email body" ELSE BodyOf(num)

\* lines 58-107: what one turn of the loop appends to emails
loop_body(num, kind) ==
    IF kind \in {"fetch_no", "no_data", "raises"} THEN <<>>
    ELSE <<[id |-> NatStr(num), from |-> SenderOf(num),
            subject |-> decoded_subject(num, kind), body |-> extracted_body(num, kind)]>>

\* lines 55-107: emails[k] is the list after the first k ids
fetch_loop(ids, mailbox) ==
    LET emails[k \in 0..Len(ids)] ==
            IF k = 0 THEN <<>> ELSE emails[k - 1] \o loop_body(ids[k], mailbox[ids[k]])
    IN  emails[Len(ids)]

\* How the session with the server goes: it works, login is refused
\* (imaplib.IMAP4.error), SELECT does not answer OK, the socket times out.
ImapSessions == {"ok", "login_refused", "select_failed", "timeout"}

\* lines 112-127: the message of the exception that leaves the function
fetch_error(session) ==
    IF session = "login_refused" THEN "IMAP error: login refused"
    ELSE IF session = "timeout" THEN "Connection timeout while fetching emails"
    ELSE "Error fetching emails: Failed to select inbox"

\* fetch_imap_emails(username, password, imap_server, max_emails, port)
fetch_imap_emails(mailbox, max_emails, session) ==
    IF session /= "ok" THEN [outcome |-> "raised", value |-> fetch_error(session)]
    ELSE [outcome |-> "returned",
          value |-> fetch_loop(Reversed(limit_ids(search_all(mailbox), max_emails)), mailbox)]

\* The limits the dashboard's number input allows, in tens (app.py, lines
\* 496-503: 10 to 100 in steps of 10), scaled to the inboxes of the model.
FetchLimits == 1..(MaxInbox - 1)

\* The call fetch_imap_emails(max_emails=...) on the inbox and its result.
FetchCall(max_emails, session, result) ==
    [max_emails |-> max_emails, session |-> session, outcome |-> result.outcome,
     value |-> result.value]

NoFetch == FetchCall(0, "none", [outcome |-> "none", value |-> <<>>])

InitFetch ==
    /\ config = NoSettings
    /\ InitAgent
    /\ ui = Idle
    /\ \E mailbox \in Mailboxes : imap = [mailbox |-> mailbox, call |-> NoFetch]

\* fetch_imap_emails on the inbox, with a session that works
FetchEmails ==
    /\ \E max_emails \in FetchLimits :
           imap' = [imap EXCEPT !.call =
                       FetchCall(max_emails, "ok", fetch_imap_emails(imap.mailbox, max_emails, "ok"))]
    /\ UNCHANGED <<config, job_description_text, message_history, generated_email, last,
                   genSucceeded, goodDraft, sendResults, res, ana, san, ext, ui>>

\* fetch_imap_emails with a session that fails
FetchFails ==
    /\ \E max_emails \in FetchLimits, session \in ImapSessions \ {"ok"} :
           imap' = [imap EXCEPT !.call =
                       FetchCall(max_emails, session,
                                 fetch_imap_emails(imap.mailbox, max_emails, session))]
    /\ UNCHANGED <<config, job_description_text, message_history, generated_email, last,
                   genSucceeded, goodDraft, sendResults, res, ana, san, ext, ui>>

NextFetch == FetchEmails \/ FetchFails

SpecFetch == InitFetch /\ [][NextFetch]_vars

\* ------------------------------------------------------------------------
\* The dashboard (app.py): session state, login, sidebar, processing, chat,
\* fetching, the Send Email tab, logout
\* ------------------------------------------------------------------------

\* The .env of the deployment the dashboard runs in: every EMAIL_* variable
\* and the admin account are set (config.py, lines 14-20).
EnvSettings == Settings("noreply@corp.example", "env-secret", "mail.corp.example", "25")

ADMIN_USERNAME == "admin"

ADMIN_PASSWORD == "admin-pw"

\* A session value that holds no object (None).  A key that is not in the
\* session reads as None (generated_email_subject, generated_email_body) or
\* as the empty list (fetched_emails).
Nothing == [none |-> TRUE]

\* The name and password typed on the login page.
Logins == {<<ADMIN_USERNAME, ADMIN_PASSWORD>>, <<"alice", "a-pw">>, <<"bob", "b-pw">>}

\* The mail account a user owns and types into the sidebar.
OwnEmail(user) == user \o "@corp.example"

OwnPassword(user) == user \o "-app-pw"

\* No mail was handed to an SMTP server yet.
NoTransmission == [via |-> "none", is_admin |-> FALSE, hr_name |-> "", smtp |-> <<>>]

\* lines 76-103: st.session_state of a new browser session
initial_session_state(cfg) ==
    [authenticated |-> FALSE,
     resume_analysis |-> Nothing,
     hr_agent |-> Nothing,
     job_description_text |-> None,
     chat_history |-> <<>>,
     email_credentials |->
         [username |-> Or(cfg.EMAIL_USERNAME, ""),
          password |-> Or(cfg.EMAIL_PASSWORD, ""),
          server |-> Or(cfg.EMAIL_SERVER, "smtp.gmail.com"),
          port |-> Or(cfg.EMAIL_PORT, "587"),
          imap_username |-> Or(cfg.EMAIL_USERNAME, ""),
          imap_password |-> Or(cfg.EMAIL_PASSWORD, "")],
     hr_name |-> "HR Team",
     is_admin |-> FALSE,
     require_email_credentials |-> FALSE,
     fetched_emails |-> <<>>,
     generated_email_subject |-> None,
     generated_email_body |-> None]

\* Who produced the job description text, the fetched emails and the
\* generated email the session holds.
NoOwners == [job_description_text |-> "", fetched_emails |-> "", generated_email |-> ""]

\* The dashboard of a new browser session: its session state, the temporary
\* files on disk, the latest mail handed to an SMTP server.
InitUi ==
    /\ config = EnvSettings
    /\ InitAgent
    /\ imap = Idle
    /\ ui = [ss |-> initial_session_state(EnvSettings), files |-> {},
             sent |-> NoTransmission, by |-> NoOwners]

\* lines 123-132: the admin signs in
admin_login(ss, username, cfg) ==
    [ss EXCEPT !.authenticated = TRUE, !.hr_name = username, !.is_admin = TRUE,
               !.email_credentials.username = cfg.EMAIL_USERNAME,
               !.email_credentials.password = cfg.EMAIL_PASSWORD,
               !.email_credentials.imap_username = cfg.EMAIL_USERNAME,
               !.email_credentials.imap_password = cfg.EMAIL_PASSWORD]

\* lines 133-145: anybody else signs in
user_login(ss, username) ==
    [ss EXCEPT !.authenticated = TRUE, !.hr_name = username, !.is_admin = FALSE,
               !.require_email_credentials = TRUE,
               !.email_credentials.username = "",
               !.email_credentials.password = "",
               !.email_credentials.imap_username = "",
               !.email_credentials.imap_password = ""]

\* lines 119-145: the Login button with a name and a password typed
login(ss, username, password, cfg) ==
    IF username = ADMIN_USERNAME /\ password = ADMIN_PASSWORD
    THEN admin_login(ss, username, cfg)
    ELSE user_login(ss, username)

\* lines 174-262: what a run of the script assigns in the sidebar when the
\* password boxes are left unticked.  The admin leaves "Use Custom Email
\* Credentials" unticked; for everybody else the fields are always shown,
\* the text fields give back the session's values and a missing password
\* is taken from the .env (lines 207-209, 249-251).
render_sidebar(ss, cfg) ==
    IF ss.is_admin THEN ss
    ELSE [ss EXCEPT !.email_credentials.password = Or(@, Or(cfg.EMAIL_PASSWORD, "")),
                    !.email_credentials.imap_password = Or(@, Or(cfg.EMAIL_PASSWORD, ""))]

\* The uploads a user may process: resume and job description of candidate p.
Pairs == {1, 2}

JdText(p) == "Job description " \o NatStr(p)

ResumeText(p) == "Resume " \o NatStr(p)

CandidateEmail(p) == "candidate" \o NatStr(p) \o "@example.com"

\* save_uploaded_file (lines 151-160): the temporary file of an upload
TempFile(file_type, p) == [file_type |-> file_type, pair |-> p]

\* How a run of Process Analysis goes: to the end; extract_text_from_file
\* raises for the job description (line 295) or for the resume (line 298);
\* analyze_resume_from_files raises (line 301); the analysis finds no email
\* (line 311); create_hr_agent raises (line 312).
ProcessOutcomes ==
    {"ok", "jd_unreadable", "resume_unreadable", "analysis_raises", "no_email", "agent_raises"}

\* lines 301-308: the analysis of pair p, the resume text added
Analysis(p, email) == [pair |-> p, email |-> email, resume_text |-> ResumeText(p)]

\* create_hr_agent (hr_conversational_agent.py, lines 397-415)
create_hr_agent(analysis, jd, email, name) ==
    [resume_data |-> analysis, job_description_text |-> jd, candidate_email |-> email,
     hr_name |-> name, generated_email |-> NoDraft]

\* lines 295-308: the session values assigned before the agent is created
process_assignments(ss, p, outcome) ==
    IF outcome = "jd_unreadable" THEN ss
    ELSE IF outcome \in {"resume_unreadable", "analysis_raises"}
    THEN [ss EXCEPT !.job_description_text = JdText(p)]
    ELSE [ss EXCEPT !.job_description_text = JdText(p),
                    !.resume_analysis =
                        Analysis(p, IF outcome = "no_email" THEN None ELSE CandidateEmail(p))]

\* lines 311-320 once the analysis is stored
process_agent(ss, outcome) ==
    IF outcome = "ok"
    THEN [ss EXCEPT !.hr_agent = create_hr_agent(ss.resume_analysis, ss.job_description_text,
                                                 ss.resume_analysis.email, ss.hr_name),
                    !.chat_history = <<>>]
    ELSE ss

\* lines 322-326 are reached when nothing was raised
process_cleanup(files, p, outcome) ==
    IF outcome \in {"ok", "no_email"}
    THEN files \ {TempFile("job_desc", p), TempFile("resume", p)}
    ELSE files

\* lines 285-331: the Process Analysis button with both files uploaded
process_analysis(ss, files, p, outcome) ==
    [ss |-> process_agent(process_assignments(ss, p, outcome), outcome),
     files |-> process_cleanup(files \cup {TempFile("job_desc", p), TempFile("resume", p)},
                               p, outcome)]

\* lines 451-461: the transport parameters the chat tab hands to chat
chat_credentials(ec, cfg) ==
    Creds(Or(Or(ec.username, cfg.EMAIL_USERNAME), None),
          Or(Or(ec.password, cfg.EMAIL_PASSWORD), None),
          Or(Or(ec.server, cfg.EMAIL_SERVER), None),
          Or(Or(ec.port, cfg.EMAIL_PORT), None))

\* What the dashboard's user types into the chat input.
ChatInputs ==
    {"What is the candidate's experience?", "Please draft email for candidate",
     "send the email now"}

\* The answer of the model to a question about the agent's candidate.
AnswerAbout(agent) == "About " \o agent.candidate_email \o ": five years of Python."

\* _generate_email (lines 234-280) of the session's agent, the model
\* answering: the draft it stores and the reply
agent_generate(agent, query) ==
    [agent |-> [agent EXCEPT !.generated_email =
                    [subject |-> email_subject(query),
                     body |-> "Dear candidate, we would like to talk to you.",
                     to |-> agent.candidate_email]],
     response |-> "Email generated successfully! Say 'send email' or 'send it' to send this email to "
                  \o agent.candidate_email \o ".",
     smtp |-> <<>>]

\* _handle_send_request (lines 290-324) of the session's agent
agent_send(agent, sent) ==
    [agent |-> agent,
     response |-> IF sent.ret
                  THEN "Email sent successfully to " \o agent.candidate_email \o "!"
                  ELSE "Failed to send email to " \o agent.candidate_email
                       \o ". Please check your email configuration.",
     smtp |-> sent.smtp]

\* HRConversationalAgent.chat (lines 140-168) of the session's agent
agent_chat(agent, query, creds, cfg) ==
    IF BranchOf[query] = "GenerateEmail" THEN agent_generate(agent, query)
    ELSE IF BranchOf[query] = "SendEmail"
    THEN IF agent.generated_email = NoDraft
         THEN [agent |-> agent, response |-> NoDraftMessage, smtp |-> <<>>]
         ELSE agent_send(agent,
                         _send_email_to_candidate(agent.generated_email.subject,
                                                  agent.generated_email.body,
                                                  agent.candidate_email, creds, cfg, "ok"))
    ELSE [agent |-> agent, response |-> AnswerAbout(agent), smtp |-> <<>>]

\* Turns of the chat tab between two runs of Process Analysis.
MaxChatTurns == 2

\* lines 463-470: the two entries a turn adds to chat_history
chat_entries(query, response) ==
    <<[role |-> "user", content |-> query], [role |-> "assistant", content |-> response]>>

\* The mail handed to an SMTP server by the session's user.
Transmission(via, ss, smtp) ==
    [via |-> via, is_admin |-> ss.is_admin, hr_name |-> ss.hr_name, smtp |-> smtp]

\* lines 445-472: the Send button of the chat tab, r what chat answered
chat_send(u, query, r) ==
    [u EXCEPT !.ss.hr_agent = r.agent,
              !.ss.chat_history = @ \o chat_entries(query, r.response),
              !.sent = IF r.smtp = <<>> THEN @ ELSE Transmission("chat", u.ss, r.smtp)]

\* lines 335-341: the Logout button
logout(ss) ==
    [ss EXCEPT !.authenticated = FALSE, !.resume_analysis = Nothing, !.hr_agent = Nothing,
               !.chat_history = <<>>]

\* The session state after the sidebar of this run is rendered.
Rendered == render_sidebar(ui.ss, config)

\* The Login button; st.rerun() then renders the dashboard.
Login(logins) ==
    /\ ~ui.ss.authenticated
    /\ \E l \in logins :
           ui' = [ui EXCEPT !.ss = render_sidebar(login(ui.ss, l[1], l[2], config), config)]
    /\ UNCHANGED <<config, job_description_text, message_history, generated_email, last,
                   genSucceeded, goodDraft, sendResults, res, ana, san, ext, imap>>

Logout ==
    /\ ui.ss.authenticated
    /\ ui' = [ui EXCEPT !.ss = logout(Rendered)]
    /\ UNCHANGED <<config, job_description_text, message_history, generated_email, last,
                   genSucceeded, goodDraft, sendResults, res, ana, san, ext, imap>>

\* The Process Analysis button
ProcessAnalysis(pairs, outcomes) ==
    /\ ui.ss.authenticated
    /\ \E p \in pairs, outcome \in outcomes :
           ui' = [ui EXCEPT
                     !.ss = process_analysis(Rendered, ui.files, p, outcome).ss,
                     !.files = process_analysis(Rendered, ui.files, p, outcome).files,
                     !.by.job_description_text =
                         IF outcome = "jd_unreadable" THEN @ ELSE ui.ss.hr_name]
    /\ UNCHANGED <<config, job_description_text, message_history, generated_email, last,
                   genSucceeded, goodDraft, sendResults, res, ana, san, ext, imap>>

\* The Send button of the chat tab
ChatSend(queries) ==
    /\ ui.ss.authenticated
    /\ ui.ss.hr_agent /= Nothing
    /\ Len(ui.ss.chat_history) < 2 * MaxChatTurns
    /\ \E query \in queries :
           ui' = chat_send([ui EXCEPT !.ss = Rendered], query,
                           agent_chat(ui.ss.hr_agent, query,
                                      chat_credentials(Rendered.email_credentials, config),
                                      config))
    /\ UNCHANGED <<config, job_description_text, message_history, generated_email, last,
                   genSucceeded, goodDraft, sendResults, res, ana, san, ext, imap>>

\* The fields of the sidebar a user who is not the admin fills in.
SidebarFields == {"username", "password", "imap_username", "imap_password"}

\* What the user types into the field: the own address, the own app password.
Typed(field, user) ==
    IF field \in {"username", "imap_username"} THEN OwnEmail(user) ELSE OwnPassword(user)

\* lines 181-239: a run of the script after the user filled in one field
\* (for a password: ticked the box and typed the new one)
sidebar_edit(ss, field, value, cfg) ==
    render_sidebar([ss EXCEPT !.email_credentials[field] = value], cfg)

\* The inbox of a mail account.
Inbox == <<"ok", "ok">>

\* What the IMAP server does with a login: the account of the .env and the
\* users' own accounts exist.
imap_session(username, password, cfg) ==
    IF \/ username = cfg.EMAIL_USERNAME /\ password = cfg.EMAIL_PASSWORD
       \/ \E l \in Logins : username = OwnEmail(l[1]) /\ password = OwnPassword(l[1])
    THEN "ok"
    ELSE "login_refused"

\* lines 520-536: what the Fetch Emails button does with the result
store_fetched(ss, result, max_emails) ==
    IF result.outcome = "raised" THEN ss
    ELSE [ss EXCEPT !.fetched_emails = FirstOf(result.value, max_emails)]

\* lines 487-491, 505-510: the button is shown and fetches
may_fetch(ss) ==
    Truthy(ss.email_credentials.imap_username) /\ Truthy(ss.email_credentials.imap_password)

\* The session the Fetch Emails button opens with the session's credentials.
fetch_session(ss, cfg) ==
    imap_session(ss.email_credentials.imap_username, ss.email_credentials.imap_password, cfg)

\* lines 505-536: the Fetch Emails button
fetch_tab(ss, cfg) ==
    store_fetched(ss, fetch_imap_emails(Inbox, Len(Inbox), fetch_session(ss, cfg)), Len(Inbox))

\* What the user asks the email writer for.
UserPrompt(user) == "Invite the candidate to an interview, signed " \o user

\* generate_email_with_ai (email_writing_agent.py, lines 49-135), the model
\* answering
generate_email_with_ai(user_prompt) ==
    [subject |-> "Interview invitation", body |-> "As asked: " \o user_prompt]

\* lines 640-659: the Generate Email with AI button
generate_tab(ss, generated) ==
    [ss EXCEPT !.generated_email_subject = generated.subject,
               !.generated_email_body = generated.body]

\* lines 676-682: the Send Email button is reached
may_send(ss) ==
    ss.is_admin \/ (Truthy(ss.email_credentials.username) /\ Truthy(ss.email_credentials.password))

\* lines 697-703: the credentials of the Send Email tab
tab_credentials(ec, cfg) ==
    [username |-> Or(ec.username, cfg.EMAIL_USERNAME),
     password |-> Or(ec.password, cfg.EMAIL_PASSWORD),
     server |-> Or(ec.server, cfg.EMAIL_SERVER),
     port |-> Or(ec.port, cfg.EMAIL_PORT)]

\* send_email_with_credentials (utils/email_helper.py, lines 11-62)
send_email_with_credentials(recipient_email, subject, body, r, net) ==
    IF ~(HeaderOk(subject) /\ HeaderOk(r.username) /\ HeaderOk(recipient_email))
       \/ ~IsIntLiteral(r.port)
    THEN [ret |-> FALSE, smtp |-> <<>>]
    ELSE [ret |-> net = "ok",
          smtp |-> SmtpEvents(r, EmailMessage(subject, body, r.username, recipient_email), net)]

\* lines 684-735: the Send Email button with recipient, subject and body
\* filled in; sent is what send_email_with_credentials did
send_tab(u, complete, sent) ==
    IF ~complete THEN u
    ELSE [u EXCEPT !.ss.generated_email_subject = IF sent.ret THEN None ELSE @,
                   !.ss.generated_email_body = IF sent.ret THEN None ELSE @,
                   !.by.generated_email = IF sent.ret THEN "" ELSE @,
                   !.sent = IF sent.smtp = <<>> THEN @ ELSE Transmission("tab", u.ss, sent.smtp)]

\* A field of the sidebar filled in by a user who is not the admin
SidebarEdit(fields) ==
    /\ ui.ss.authenticated
    /\ ~ui.ss.is_admin
    /\ \E field \in fields :
           ui' = [ui EXCEPT !.ss = sidebar_edit(ui.ss, field, Typed(field, ui.ss.hr_name), config)]
    /\ UNCHANGED <<config, job_description_text, message_history, generated_email, last,
                   genSucceeded, goodDraft, sendResults, res, ana, san, ext, imap>>

\* The Fetch Emails button
FetchTab ==
    /\ ui.ss.authenticated
    /\ may_fetch(Rendered)
    /\ ui' = [ui EXCEPT !.ss = fetch_tab(Rendered, config),
                        !.by.fetched_emails =
                            IF fetch_session(Rendered, config) = "ok" THEN ui.ss.hr_name ELSE @]
    /\ UNCHANGED <<config, job_description_text, message_history, generated_email, last,
                   genSucceeded, goodDraft, sendResults, res, ana, san, ext, imap>>

\* The Generate Email with AI button
GenerateTab ==
    /\ ui.ss.authenticated
    /\ ui' = [ui EXCEPT !.ss = generate_tab(Rendered,
                                            generate_email_with_ai(UserPrompt(ui.ss.hr_name))),
                        !.by.generated_email = ui.ss.hr_name]
    /\ UNCHANGED <<config, job_description_text, message_history, generated_email, last,
                   genSucceeded, goodDraft, sendResults, res, ana, san, ext, imap>>

\* The Send Email button of the Send Email tab: the subject and the body are
\* the generated ones, or typed when there are none
SendTab ==
    /\ ui.ss.authenticated
    /\ may_send(Rendered)
    /\ ui' = send_tab([ui EXCEPT !.ss = Rendered],
                      credentials_complete(tab_credentials(Rendered.email_credentials, config)),
                      send_email_with_credentials(
                          "applicant@example.com",
                          Or(ui.ss.generated_email_subject, "Your application"),
                          Or(ui.ss.generated_email_body, "Thank you for applying."),
                          tab_credentials(Rendered.email_credentials, config), "ok"))
    /\ UNCHANGED <<config, job_description_text, message_history, generated_email, last,
                   genSucceeded, goodDraft, sendResults, res, ana, san, ext, imap>>

\* Processing uploads and chatting about them
NextProcess ==
    \/ Login({<<"alice", "a-pw">>})
    \/ ProcessAnalysis(Pairs, ProcessOutcomes)
    \/ ChatSend(ChatInputs)
    \/ Logout

SpecProcess == InitUi /\ [][NextProcess]_vars

\* Sending mail from the chat and from the Send Email tab
NextSending ==
    \/ Login({<<ADMIN_USERNAME, ADMIN_PASSWORD>>, <<"alice", "a-pw">>})
    \/ SidebarEdit({"username", "password"})
    \/ ProcessAnalysis({1}, {"ok"})
    \/ ChatSend({"Please draft email for candidate", "send the email now"})
    \/ SendTab

SpecSending == InitUi /\ [][NextSending]_vars

\* Users following one another in a browser session
NextSessions ==
    \/ Login(Logins)
    \/ SidebarEdit(SidebarFields)
    \/ ProcessAnalysis({1}, {"ok"})
    \/ FetchTab
    \/ GenerateTab
    \/ Logout

SpecSessions == InitUi /\ [][NextSessions]_vars

\* ------------------------------------------------------------------------
\* Properties
\* ------------------------------------------------------------------------

\* The keyword lists as the specification states them.
C1_GenerateKeywords ==
    {"prepare email", "create email", "write email", "draft email", "generate email",
     "compose email", "make email", "email to candidate"}

C1_SendKeywords ==
    {"send email", "send it", "send the email", "send now", "dispatch email", "email send"}

C1_Mentions(lowered, keywords) == \E k \in keywords : Contains(lowered, k)

C1_Intent(lowered) ==
    IF C1_Mentions(lowered, C1_GenerateKeywords) THEN "GenerateEmail"
    ELSE IF C1_Mentions(lowered, C1_SendKeywords) THEN "SendEmail"
    ELSE "Query"

\* C1: the branch a chat call takes is the fixed-priority rule applied to the
\* lower-cased utterance: GenerateEmail if it contains a generate-email
\* keyword, otherwise SendEmail if it contains a send keyword, otherwise Query.
C1_IntentPriority == last.branch /= "none" => last.branch = C1_Intent(Lower(last.query))

\* C1 witness: an utterance in capitals with a send keyword and a
\* generate-email keyword was taken as GenerateEmail.
C1_BothKeywordsRouted ==
    /\ last.query = "Send Now, then COMPOSE EMAIL"
    /\ last.branch = "GenerateEmail"

\* C2: a session holds a draft only if some earlier generate-email call has
\* completed successfully; a generate-email call that fails leaves no new draft.
C2_DraftOnlyAfterSuccess == generated_email /= NoDraft => genSucceeded

\* C3: a send-email call made while the session holds no draft returns the
\* "generate first" message, attempts no SMTP step, does not raise and leaves
\* the session as it was.
C3_SendWithoutDraft ==
    [][(generated_email = NoDraft /\ last'.branch = "SendEmail")
          => /\ last'.outcome = "returned"
             /\ last'.value = NoDraftMessage
             /\ last'.smtp = <<>>
             /\ last'.llm = <<>>
             /\ generated_email' = NoDraft
             /\ message_history' = message_history
             /\ config' = config
             /\ job_description_text' = job_description_text]_vars

\* C3 witness: a send request was answered while no draft existed.
C3_SentWithoutDraft ==
    /\ last.branch = "SendEmail"
    /\ generated_email = NoDraft
    /\ last.value = NoDraftMessage

\* the message a chat call handed to send_message, if it got that far
C4_Transmitted(call) == {call.smtp[i].msg : i \in {j \in 1..Len(call.smtp) : call.smtp[j].op = "send_message"}}

\* C4: a send transmits exactly the subject and body stored by the most
\* recent generate-email call that succeeded.
C4_SendUsesLastSuccessfulDraft ==
    last.branch = "SendEmail" =>
        \A msg \in C4_Transmitted(last) :
            /\ goodDraft /= NoDraft
            /\ msg.Subject = goodDraft.subject
            /\ msg.content = goodDraft.body

\* a parameter is given when the caller passed a non-empty value
C5_Given(v) == v /= None /\ v /= ""

C5_Expected(given, default) == IF C5_Given(given) THEN given ELSE default

C5_Empty(v) == v = None \/ v = ""

C5_AnyEmpty(creds, cfg) ==
    \/ C5_Empty(C5_Expected(creds.username, cfg.EMAIL_USERNAME))
    \/ C5_Empty(C5_Expected(creds.password, cfg.EMAIL_PASSWORD))
    \/ C5_Empty(C5_Expected(creds.server, cfg.EMAIL_SERVER))
    \/ C5_Empty(C5_Expected(creds.port, cfg.EMAIL_PORT))

C5_EventOk(e, creds, cfg) ==
    /\ e.op = "connect" =>
           /\ e.host = C5_Expected(creds.server, cfg.EMAIL_SERVER)
           /\ IsIntLiteral(C5_Expected(creds.port, cfg.EMAIL_PORT))
           /\ e.port = IntValue(C5_Expected(creds.port, cfg.EMAIL_PORT))
    /\ e.op = "login" =>
           /\ e.user = C5_Expected(creds.username, cfg.EMAIL_USERNAME)
           /\ e.password = C5_Expected(creds.password, cfg.EMAIL_PASSWORD)

\* C5: a dispatch connects and logs in with, for each of the four transport
\* parameters on its own, the caller's value when one is given and the
\* configuration default otherwise; when any of the four resolved values is
\* empty it attempts no connection.
C5_IndependentFallback ==
    last.branch = "SendEmail" =>
        /\ C5_AnyEmpty(last.creds, config) => last.smtp = <<>>
        /\ \A i \in 1..Len(last.smtp) : C5_EventOk(last.smtp[i], last.creds, config)

\* C5 witness: a dispatch logged in with the caller's account and the
\* configured secret, host and port.
C5_MixedSourcesUsed ==
    /\ last.branch = "SendEmail"
    /\ last.creds = Creds("hr@corp.example", None, None, None)
    /\ config = Settings("noreply@corp.example", "env-secret", "mail.corp.example", "25")
    /\ Len(last.smtp) = 4

C6_Logged(call, line) == \E i \in 1..Len(call.log) : call.log[i] = line

C7_SendNeverRaises ==
    last.branch = "SendEmail" => (last.outcome = "returned" /\ Len(last.value) > 0)

\* C7 witness: a dispatch with complete credentials and a port that is no
\* number returned the failure message.
C7_BadPortReturned ==
    /\ last.branch = "SendEmail"
    /\ generated_email /= NoDraft
    /\ last.creds = Creds("hr@corp.example", "app-secret", "smtp.corp.example", "smtp")
    /\ last.outcome = "returned"
    /\ last.value = FailedMessage

C8_Present(key) == key /= None /\ key /= ""

\* the primary can be built: its library is there, its credential is present
\* and its constructor does not raise
C8_PrimaryUsable(env) ==
    env.GEMINI_AVAILABLE /\ C8_Present(env.GEMINI_API_KEY) /\ env.gemini_ctor = "ok"

C8_SecondaryUsable(env) == C8_Present(env.DEEPSEEK_API_KEY) /\ env.deepseek_ctor = "ok"

\* C8: the resolver returns Gemini when Gemini's credential is present and its
\* construction succeeds, otherwise DeepSeek when DeepSeek's credential is
\* present and its construction succeeds, and raises exactly when neither is so.
C8_ProviderOrder ==
    res.phase = "resolved" =>
        /\ C8_PrimaryUsable(res.env) =>
               (res.result.outcome = "returned" /\ res.result.provider = "Gemini")
        /\ (~C8_PrimaryUsable(res.env) /\ C8_SecondaryUsable(res.env)) =>
               (res.result.outcome = "returned" /\ res.result.provider = "DeepSeek")
        /\ (~C8_PrimaryUsable(res.env) /\ ~C8_SecondaryUsable(res.env)) <=>
               res.result.outcome = "raised"

\* C8 witness: with both providers usable the resolver returned Gemini.
C8_PrimaryPreferred ==
    /\ res.phase = "resolved"
    /\ C8_PrimaryUsable(res.env)
    /\ C8_SecondaryUsable(res.env)
    /\ res.result.provider = "Gemini"

\* C9: every model invocation of a chat call starts with the context block,
\* the system message the agent was built with.
C9_ContextFirstInEveryInvocation ==
    \A i \in 1..Len(last.llm) :
        last.llm[i][1] = Msg("system", SystemPromptOf[job_description_text])

\* the conversions the claim names
C10_Converted(given, got) ==
    /\ given.type = "float" => got = given
    /\ given = IntV(73) => got = FloatV(73000)
    /\ given = StrV("73%") => got = FloatV(73000)
    /\ given = StrV("73.5 %") => got = FloatV(73500)
    /\ given = StrV("seventy") => got = FloatV(0)

\* C10: every analysis analyze_resume returns carries a match percentage that
\* is a float: a number is kept, "73%" is 73.0, "73.5 %" is 73.5 and an
\* unparseable value is 0.0.
C10_MatchPercentageIsFloat ==
    (ana.phase = "analyzed" /\ ana.outcome = "returned") =>
        /\ "match_percentage" \in DOMAIN ana.analysis
        /\ ana.analysis["match_percentage"].type = "float"
        /\ (ana.response.kind = "object" /\ "match_percentage" \in DOMAIN ana.response.fields) =>
               C10_Converted(ana.response.fields["match_percentage"],
                             ana.analysis["match_percentage"])


\* C11: the match percentage of every analysis analyze_resume returns lies
\* between 0 and 100 inclusive, on the JSON path and on the manual path.
C11_MatchPercentageInRange ==
    (/\ ana.phase = "analyzed"
     /\ ana.outcome = "returned"
     /\ "match_percentage" \in DOMAIN ana.analysis
     /\ ana.analysis["match_percentage"].type = "float")
        => ana.analysis["match_percentage"].milli \in 0..100000

\* What the claim's rules give for each response text: the first "NN%" token
\* in thousandths, the first level in the order Junior, Mid-level, Senior,
\* Lead, Executive whose pattern occurs, and High before Medium before Low.
C12_Expected ==
    ("The candidate matches 82.5 % of the requirements. Senior level, high acceptance."
         :> <<82500, "Unknown", "High">>)
    @@ ("No assessment possible." :> <<0, "Unknown", "Unknown">>)
    @@ ("{match: 80%, level: Junior}" :> <<80000, "Junior", "Unknown">>)
    @@ ("Mid-senior profile {incomplete" :> <<0, "Mid-level", "Unknown">>)
    @@ ("A senior engineer and team leader; low risk. Match 7 %%" :> <<7000, "Senior", "Low">>)
    @@ ("Senior, 45%, High" :> <<45000, "Senior", "High">>)
    @@ ("Lead role; medium or low odds. 250% match" :> <<250000, "Lead", "Medium">>)

C12_Fields(text, expected, email) ==
    [match_percentage |-> FloatV(expected[1]),
     position_level |-> StrV(expected[2]),
     acceptance_probability |-> StrV(expected[3]),
     acceptance_reasoning |-> StrV(""),
     key_strengths |-> ListV("[]"),
     key_gaps |-> ListV("[]"),
     detailed_analysis |-> StrV(text),
     recommendation |-> StrV(""),
     email |-> email]

\* C12: the analysis of a non-JSON response holds the first "NN%" token as a
\* float (else 0.0), the first level in the order Junior, Mid-level, Senior,
\* Lead, Executive whose pattern occurs (else Unknown), High, else Medium,
\* else Low (else Unknown), the full response text as detailed analysis and
\* every other field empty; "Senior, 45%, High" gives Senior, 45.0 and High.
C12_ManualExtraction ==
    (ana.phase = "analyzed" /\ ana.response.kind = "text" /\ ana.outcome = "returned") =>
        /\ ana.response.text \in DOMAIN C12_Expected
        /\ ana.analysis = C12_Fields(ana.response.text, C12_Expected[ana.response.text], ana.email)

\* C12 witness: the response naming a mid-senior profile was extracted manually.
C12_MidSeniorExtracted ==
    /\ ana.phase = "analyzed"
    /\ ana.response = TextResponse("Mid-senior profile {incomplete")
    /\ ana.outcome = "returned"
    /\ ana.analysis["position_level"] = StrV("Mid-level")

\* C13: whenever a provider is available and the model answers with text that
\* is not JSON, with or without a {...} span, analyze_resume returns an
\* analysis holding that text and logs the fallback; it does not raise.
C13_ParseFailureRecovered ==
    (/\ ana.phase = "analyzed"
     /\ ana.response.kind = "text"
     /\ C8_PrimaryUsable(ana.env) \/ C8_SecondaryUsable(ana.env))
        => /\ ana.outcome = "returned"
           /\ ana.analysis["detailed_analysis"] = StrV(ana.response.text)
           /\ Len(ana.log) = 1
           /\ Contains(ana.log[1], "extracting manually")

\* C13 witness: a response whose {...} span is not JSON was returned as an
\* analysis.
C13_BadSpanReturned ==
    /\ ana.phase = "analyzed"
    /\ ana.response = TextResponse("{match: 80%, level: Junior}")
    /\ ana.outcome = "returned"
    /\ ana.log = <<"Failed to parse JSON response, extracting manually">>

\* the masked form of the claim: the first four and last four characters
C15_Masked(key) == SubSeq(key, 1, 4) \o "***" \o SubSeq(key, Len(key) - 3, Len(key))

\* C15: no configured secret remains verbatim in the sanitized message, and a
\* secret of more than eight characters that occurred in the message has left
\* its first four and last four characters around the mask.
C15_NoSecretRemains ==
    san.phase = "sanitized" =>
        \A i \in 1..Len(san.keys) :
            Truthy(san.keys[i]) =>
                /\ ~Contains(san.result, san.keys[i])
                /\ (Len(san.keys[i]) > 8 /\ Contains(san.error_msg, san.keys[i]))
                       => Contains(san.result, C15_Masked(san.keys[i]))

\* C14: when no provider is available analyze_resume raises the resolver's
\* own error, while every other failure is raised wrapped as a failed
\* analysis, so that the two differ.
C14_NoProviderPropagated ==
    (ana.phase = "analyzed" /\ ana.outcome = "raised") =>
        IF C8_PrimaryUsable(ana.env) \/ C8_SecondaryUsable(ana.env)
        THEN Take(ana.analysis.message, 25) = "Failed to analyze resume:"
        ELSE ana.analysis.message = NoProviderText

\* the warnings of a resolver log
C16_IsWarning(line) == Take(line, 20) = "Failed to initialize"

\* what sanitizing the text of each construction failure leaves to be logged
C16_Redacted(env, provider, outcome, key) ==
    IF outcome = "ok" THEN <<>>
    ELSE <<"Failed to initialize " \o provider \o ": "
           \o sanitize_error_message(ctor_error(outcome, key), resolver_environ(env))>>

C16_Expected(env) ==
    (IF C8_PrimaryUsable(env) \/ ~(env.GEMINI_AVAILABLE /\ C8_Present(env.GEMINI_API_KEY)) THEN <<>>
     ELSE C16_Redacted(env, "Gemini", env.gemini_ctor, env.GEMINI_API_KEY))
    \o (IF C8_PrimaryUsable(env) \/ ~C8_Present(env.DEEPSEEK_API_KEY) THEN <<>>
        ELSE C16_Redacted(env, "DeepSeek", env.deepseek_ctor, env.DEEPSEEK_API_KEY))

\* C16: the warnings a resolver logs are the texts of its construction
\* failures, primary and secondary, after redaction, in every module.
C16_FailuresLoggedSanitized ==
    res.phase = "resolved" => SelectSeq(res.result.log, C16_IsWarning) = C16_Expected(res.env)

\* C17: the instruction of the documented usage flow is handled as an
\* email-generation request that stores a draft, and the "send email" that
\* follows it dispatches that draft instead of reporting that no email has
\* been generated.
C17_UsageFlowDispatches ==
    [][/\ last'.query = UsageStep4 =>
              (last'.branch = "GenerateEmail" /\ generated_email' /= NoDraft)
       /\ (last.query = UsageStep4 /\ last'.query = "send email") =>
              last'.value /= NoDraftMessage]_vars

\* the SMTP steps of a call that are of one kind
C19_Steps(call, op) == {i \in 1..Len(call.smtp) : call.smtp[i].op = op}

\* C19: a query and a generate-email call invoke the model exactly once and
\* open no SMTP session; a send-email call invokes no model and opens at most
\* one SMTP session, transmitting at most one message.
C19_OneNetworkOperation ==
    /\ last.branch \in {"Query", "GenerateEmail"} => (Len(last.llm) = 1 /\ last.smtp = <<>>)
    /\ last.branch = "SendEmail" =>
           /\ last.llm = <<>>
           /\ Cardinality(C19_Steps(last, "connect")) <= 1
           /\ Cardinality(C19_Steps(last, "send_message")) <= 1

\* C20: once a generate-email call has succeeded, the draft the session holds
\* is the one stored by the most recent generate-email call that succeeded.
C20_DraftIsLatestSuccessful == genSucceeded => generated_email = goodDraft

\* C18: email extraction never merges a neighbouring token into the address
\* and never includes trailing punctuation: whatever word, label, blank or
\* punctuation stands before or after the address written in the text, the
\* result is that address alone.
C18_AddressAlone == ext /= Idle => ext.result = ext.address

\* the text after the first "subject:" of the instruction, in any case, up to
\* the end of its line
C21_AfterLabel(query, g) == IF g > Len(query) THEN "" ELSE RestOfLine(query, g)

C21_Labels(query) == {p \in 1..Len(query) : LowerMatchesAt(query, p, "subject:")}

C21_Expected(query) ==
    IF C21_Labels(query) = {} THEN DefaultSubject
    ELSE Strip(C21_AfterLabel(query, MinOf(C21_Labels(query)) + 8))

\* C21: the subject of the draft is the trimmed text that follows
\* "subject:" (in any case) up to the end of the line when the instruction
\* holds that pattern, and "Regarding Your Application" for every other
\* instruction.
C21_SubjectFromInstruction ==
    (last.branch = "GenerateEmail" /\ last.outcome = "returned")
        => generated_email.subject = C21_Expected(last.query)

\* what the formatter composes from a draft: the text shown to the HR user
\* when the draft was generated
C22_Shown(draft) ==
    format_email(draft.subject, _extract_candidate_name(candidate_email), draft.body, hr_name)

\* C22: the content of every transmitted message is the cached draft composed
\* with greeting and signature by the formatter, the text shown at generation.
C22_TransmittedAsShown ==
    \A i \in DOMAIN last.smtp :
        last.smtp[i].op = "send_message" => last.smtp[i].msg.content = C22_Shown(generated_email)

\* C23: on every query turn the model is invoked with the context block and
\* every earlier turn of the history verbatim, then the query, whatever
\* characters they hold; no earlier content makes the query fail or arrive
\* altered.
C23_HistoryVerbatim ==
    [][last'.branch = "Query" =>
           /\ Len(last'.llm) = 1
           /\ last'.llm[1] = message_history \o <<Msg("human", last'.query)>>]_vars

\* the history after a plain query that returned
C25_Appended(history, call) ==
    history \o <<Msg("human", call.query), Msg("ai", call.value)>>

\* C25: the history changes only on a plain query that returns, which appends
\* the utterance and then the reply; generate-email and send-email calls and
\* a query that raises leave it as it was.
C25_HistoryFrame ==
    [][IF last'.branch = "Query" /\ last'.outcome = "returned"
       THEN message_history' = C25_Appended(message_history, last')
       ELSE message_history' = message_history]_vars

\* C25 witness: after a turn was recorded, a query reached the model, the
\* model raised, and the history still holds that one turn.
C25_RaisedAfterTurn ==
    /\ last.branch = "Query"
    /\ last.outcome = "raised"
    /\ last.llm /= <<>>
    /\ Len(message_history) = 3

C26_Role(i) == IF i = 1 THEN "system" ELSE IF i % 2 = 0 THEN "human" ELSE "ai"

\* C26: the history holds the system message built at construction at its
\* head and nowhere else, followed by human and agent messages in turn,
\* starting with a human message and ending with an agent message.
C26_HistoryShape ==
    /\ message_history[1] = Msg("system", SystemPromptOf[job_description_text])
    /\ Len(message_history) % 2 = 1
    /\ \A i \in 1..Len(message_history) : message_history[i].role = C26_Role(i)

\* C26 witness: two turns were recorded.
C26_TwoTurns == Len(message_history) >= 5

\* the messages max_emails reaches: the most recent ones of the inbox
C24_Recent(mailbox, max_emails) ==
    {i \in 1..Len(mailbox) : i > Len(mailbox) - max_emails}

\* the k-th newest of the messages kept
C24_Newest(kept, k) == CHOOSE i \in kept : Cardinality({j \in kept : j > i}) = k - 1

\* emails lists the messages kept, newest first, and nothing else
C24_Lists(emails, kept) ==
    /\ Len(emails) = Cardinality(kept)
    /\ \A k \in 1..Len(emails) :
           /\ emails[k].id = NatStr(C24_Newest(kept, k))
           /\ emails[k].from = SenderOf(C24_Newest(kept, k))

\* the messages whose fetch failed, and those of which a part did not parse
C24_FetchFailed(mailbox) == {i \in 1..Len(mailbox) : mailbox[i] \in {"fetch_no", "no_data", "raises"}}

C24_ParseFailed(mailbox) == {i \in 1..Len(mailbox) : mailbox[i] \in {"subject_error", "body_error"}}

\* C24: a fetch returns at most max_emails messages, the most recent of the
\* inbox, newest first; a message whose fetch or parse fails is skipped, the
\* fetch does not fail and the order of the others stands.
C24_FailedSkipped ==
    (imap /= Idle /\ imap.call.session = "ok") =>
        /\ imap.call.outcome = "returned"
        /\ Len(imap.call.value) <= imap.call.max_emails
        /\ C24_Lists(imap.call.value,
                     C24_Recent(imap.mailbox, imap.call.max_emails)
                         \ (C24_FetchFailed(imap.mailbox) \cup C24_ParseFailed(imap.mailbox)))

\* a message kept although a part of it did not parse carries what could be
\* read: the undecoded subject header, the body "Error extracting email body"
C24_Placeholders(emails, mailbox) ==
    \A k \in 1..Len(emails), i \in 1..Len(mailbox) :
        emails[k].id = NatStr(i) =>
            /\ mailbox[i] = "body_error" <=> emails[k].body = "Error extracting email body"
            /\ mailbox[i] = "subject_error" <=> emails[k].subject = RawSubject(i)

\* C24 as amended: a fetch returns at most max_emails messages, the most
\* recent of the inbox, newest first; a message whose fetch fails or whose
\* handling raises is skipped, a message whose subject or body alone does not
\* decode is kept with the raw subject or the body "Error extracting email
\* body"; the fetch does not fail and the order of the others stands.
C24_FetchedNewestFirst ==
    (imap /= Idle /\ imap.call.session = "ok") =>
        /\ imap.call.outcome = "returned"
        /\ Len(imap.call.value) <= imap.call.max_emails
        /\ C24_Lists(imap.call.value,
                     C24_Recent(imap.mailbox, imap.call.max_emails) \ C24_FetchFailed(imap.mailbox))
        /\ C24_Placeholders(imap.call.value, imap.mailbox)

\* C24 witness: the inbox holds more than max_emails messages, one of the
\* recent ones failed to fetch, and the fetch returned a newer and an older one.
C24_SkippedBetween ==
    /\ imap /= Idle
    /\ imap.call.outcome = "returned"
    /\ Len(imap.mailbox) > imap.call.max_emails
    /\ Len(imap.call.value) = 2
    /\ imap.mailbox[Len(imap.mailbox) - 1] = "fetch_no"

\* C27: after any sequence of Process Analysis runs the session's job
\* description text, resume analysis, agent and chat history derive from the
\* same resume/job-description pair: the analysis belongs to the job
\* description, the agent was built from that analysis and that job
\* description, and a chat history is the one of that agent.
C27_SamePair ==
    /\ ui.ss.resume_analysis /= Nothing
           => ui.ss.job_description_text = JdText(ui.ss.resume_analysis.pair)
    /\ ui.ss.hr_agent /= Nothing
           => /\ ui.ss.hr_agent.resume_data = ui.ss.resume_analysis
              /\ ui.ss.hr_agent.job_description_text = ui.ss.job_description_text
    /\ ui.ss.chat_history /= <<>>
           => /\ ui.ss.hr_agent /= Nothing
              /\ ui.ss.hr_agent.resume_data = ui.ss.resume_analysis

\* C30: when a Process Analysis run is over, no temporary file it created
\* for the uploaded resume or job description is left on disk.
C30_TempFilesDeleted == ui.files = {}

\* The SMTP session logs in with the user name or the password of the .env.
C28_UsesDefaultAccount(smtp) ==
    \E i \in DOMAIN smtp :
        /\ smtp[i].op = "login"
        /\ smtp[i].user = config.EMAIL_USERNAME \/ smtp[i].password = config.EMAIL_PASSWORD

\* C28: a mail that a user who is not the admin sends, from the chat or from
\* the Send Email tab, is transmitted with the default account of the .env
\* only if the user has entered an own SMTP user name and password.
C28_NoDefaultAccount ==
    (ui.sent.via /= "none" /\ ~ui.sent.is_admin /\ C28_UsesDefaultAccount(ui.sent.smtp))
        => /\ ui.ss.email_credentials.username = OwnEmail(ui.sent.hr_name)
           /\ ui.ss.email_credentials.password = OwnPassword(ui.sent.hr_name)

\* A field of the session's email credentials holds what another user typed.
C29_TypedByOther(field) ==
    \E l \in Logins :
        /\ l[1] /= ui.ss.hr_name
        /\ ui.ss.email_credentials[field] = Typed(field, l[1])

\* C29: what the session of a signed-in user shows or uses was produced by
\* that user: the fetched emails, the generated email, the job description
\* text and the credentials typed into the sidebar.
C29_NothingCarriedOver ==
    ui.ss.authenticated
        => /\ ui.ss.fetched_emails /= <<>> => ui.by.fetched_emails = ui.ss.hr_name
           /\ ui.ss.generated_email_subject /= None => ui.by.generated_email = ui.ss.hr_name
           /\ ui.ss.job_description_text /= None => ui.by.job_description_text = ui.ss.hr_name
           /\ \A field \in SidebarFields : ~C29_TypedByOther(field)
====
